---- MODULE Spec2Model ----
(***************************************************************************)
(* RAIH_CHATBOT: the query router (OpenArena_ChatbotChain.py) and the SQL  *)
(* pipeline (SQLAgent.py) as a state machine.                              *)
(*                                                                         *)
(* Scores are exact rationals held as integers: a scorer's 1.0 is One, and *)
(* a total (the 0.25-weighted sum of four scores) is held as the plain sum *)
(* of the four scores, so a total's 1.0 is TotalOne = 4 * One.             *)
(***************************************************************************)
EXTENDS Integers, Sequences, FiniteSets, TLC

VARIABLES
    wh,               \* the warehouse: what its metadata queries answer, per table
    schema_cache,     \* SQLAgent.schema_cache
    pc,               \* position of the running request
    caller,           \* who called process_question: "direct", "router" or "none"
    question,         \* the question being processed (after prefix stripping)
    max_retries,      \* process_question's max_retries argument
    available_tables, \* process_question local
    relevant_tables,  \* process_question local
    table_infos,      \* process_question local
    ddl_i,            \* process_question local: position of the schema loop
    query,            \* process_question local
    retry_count,      \* process_question local
    result,           \* process_question local: the last QueryResult
    response,         \* the text a capability returns (route_query's response)
    execCount,        \* history: executions of the question's query in this request
    corrCount,        \* history: correct_query_errors calls in this request
    lastExec,         \* history: the query and error text of the latest execution
    lastCorr,         \* history: the arguments of the latest correction call
    llmCalls,         \* history: completion-service calls made by this request
    lastDDL,          \* history: the latest get_table_ddl call
    prevDDL,          \* history: the get_table_ddl call before it
    confidence_threshold, \* RouterAgent.confidence_threshold, in hundredths
    r_input,          \* route_query's arguments as the caller gave them
    r_query,          \* route_query local: query, after prefix stripping
    force_route,      \* route_query local
    classification,   \* route_query local: classification_result
    clsTotals,        \* history: the totals classify_query computed
    routeTotals,      \* route_query locals: the totals of the ambiguous branch
    env,              \* route_query local: result, the envelope
    calls,            \* history: what this route_query call invoked
    catalog,          \* the warehouse's INFORMATION_SCHEMA.TABLES rows
    lastTables,       \* history: what the latest get_available_tables call returned
    l_reply,          \* the completion service's answer to _llm_classification
    l_verdict,        \* what _llm_classification returned
    l_calls,          \* history: completion-service calls of that invocation
    cursor,           \* SnowflakeConnection.cursor: its statement and result set
    conn_pc,          \* per request: position inside execute_query
    conn_got,         \* per request: what execute_query read from the cursor
    rel_in,           \* determine_relevant_tables' arguments and the reply it gets
    rel_out,          \* what determine_relevant_tables returned
    genQuery,         \* history: the query generate_sql_query returned
    valReply,         \* history: the reply the validation call received
    f_in,             \* format_response's arguments and what its calls will meet
    f_out,            \* what format_response returned, and what it did on the way
    g_pc,             \* per request: position inside get_table_ddl
    g_got             \* per request: get_table_ddl's table, value and queries

pqRest == <<caller, question, max_retries, available_tables, relevant_tables,
            table_infos, ddl_i, query, retry_count, result, execCount, corrCount,
            lastExec, lastCorr, llmCalls>>
pqVars == <<pqRest, response>>
ddlVars == <<schema_cache, lastDDL, prevDDL>>
routerVars == <<r_input, r_query, force_route, classification, clsTotals, routeTotals,
                env, calls>>
catVars == <<catalog, lastTables>>
llmVars == <<l_reply, l_verdict, l_calls>>
connVars == <<cursor, conn_pc, conn_got>>
relVars == <<rel_in, rel_out>>
valVars == <<genQuery, valReply>>
fmtVars == <<f_in, f_out>>
getVars == <<g_pc, g_got>>
moreVars == <<fmtVars, getVars>>
auxVars == <<catVars, llmVars, connVars, relVars, valVars, moreVars>>
coreVars == <<wh, ddlVars, pc, pqVars, confidence_threshold, routerVars>>

-----------------------------------------------------------------------------
(* Bounds of the model *)

MaxRetriesBound == 2

-----------------------------------------------------------------------------
(* The environment: tables, queries, errors *)

Tables == {"TRACKING", "ONETRUST_VENDORS"}

\* What the warehouse answers for a table's metadata queries.
\*   up      : the three queries succeed
\*   partial : the columns query succeeds, the sample and count queries fail
\*   nocols  : the columns query succeeds with no rows, the other two fail
\*   down    : the columns query fails
WhStates == {"up", "partial", "nocols", "down"}

\* The warehouses a run starts with.
WhScenarios ==
    {[t \in Tables |-> "up"],
     [t \in Tables |-> IF t = "TRACKING" THEN "partial" ELSE "down"],
     [t \in Tables |-> IF t = "TRACKING" THEN "nocols" ELSE "up"]}

WhColumns(t) == IF t = "TRACKING" THEN <<"ID", "STATUS">> ELSE <<"VENDOR_NAME">>
WhRowCount(t) == IF t = "TRACKING" THEN 12 ELSE 3

\* Python's None, for a text and for a count.
None == "None"
NoCount == 0 - 1

\* SQL texts the completion service may produce; "" is the empty string.
Queries == {"q1", "q2"}
Errors == {"e1", "e2"}
RowCounts == {0, 12}

-----------------------------------------------------------------------------
(* SnowflakeConnection.execute_query: never raises; errors are values.  data *)
(* is the number of rows of the DataFrame, NoCount when data is None.       *)

QueryResultKeepsError(ok, rows, err, q) ==
    [success |-> ok, data |-> rows, row_count |-> rows, error |-> err, query |-> q]

QueryResult(ok, rows, err, q) ==
    IF ok
    THEN [success |-> TRUE, data |-> rows, row_count |-> rows, error |-> None,
          query |-> q]
    ELSE [success |-> FALSE, data |-> NoCount, row_count |-> NoCount, error |-> err,
          query |-> q]

NoResult == [success |-> FALSE, data |-> NoCount, row_count |-> NoCount, error |-> None,
             query |-> None]

\* One call of execute_query.  raised: a statement of the try block raised,
\* with text err; hasColumns: cursor.description is not empty; rows: the
\* number of rows fetchall returned.
ExecuteQuery(q, raised, hasColumns, rows, err) ==
    IF raised THEN QueryResult(FALSE, 0, err, q)
    ELSE IF hasColumns /\ rows > 0 THEN QueryResult(TRUE, rows, err, q)
    ELSE QueryResult(TRUE, 0, err, q)

-----------------------------------------------------------------------------
(* SQLAgent.get_table_ddl *)

TableInfo(t, cols, sample, rc) ==
    [table_name |-> t, columns |-> cols, sample_data |-> sample, row_count |-> rc]

EmptyCache == [t \in {} |-> TableInfo(t, <<>>, None, NoCount)]

DDLMissAllOrNothing(t, w) ==
    IF w = "up"
    THEN [info |-> TableInfo(t, WhColumns(t), "rows", WhRowCount(t)),
          store |-> TRUE, queries |-> 3]
    ELSE [info |-> TableInfo(t, <<>>, None, NoCount), store |-> FALSE, queries |-> 1]

\* The value get_table_ddl computes on a cache miss, and whether it stores it.
\* queries counts the warehouse queries issued.
DDLMiss(t, w) ==
    CASE w = "down" ->
           [info |-> TableInfo(t, <<>>, None, NoCount), store |-> FALSE, queries |-> 1]
      [] w = "nocols" ->
           [info |-> TableInfo(t, <<>>, None, NoCount), store |-> TRUE, queries |-> 3]
      [] w = "partial" ->
           [info |-> TableInfo(t, WhColumns(t), None, NoCount), store |-> TRUE,
            queries |-> 3]
      [] OTHER ->
           [info |-> TableInfo(t, WhColumns(t), "rows", WhRowCount(t)),
            store |-> TRUE, queries |-> 3]

CacheLookupNever(cache, t) == FALSE

\* table_name in self.schema_cache
CacheLookup(cache, t) == t \in DOMAIN cache

GetTableDDLRefreshing(cache, w, t) ==
    LET m == DDLMiss(t, w[t])
    IN  [info |-> m.info,
         cache |-> IF m.store THEN (t :> m.info) @@ cache ELSE cache,
         queries |-> m.queries,
         hit |-> FALSE]

\* One call of get_table_ddl: the value returned, the cache afterwards and the
\* number of warehouse queries it issued.
GetTableDDL(cache, w, t) ==
    IF CacheLookup(cache, t)
    THEN [info |-> cache[t], cache |-> cache, queries |-> 0, hit |-> TRUE]
    ELSE LET m == DDLMiss(t, w[t])
         IN  [info |-> m.info,
              cache |-> IF m.store THEN (t :> m.info) @@ cache ELSE cache,
              queries |-> m.queries,
              hit |-> FALSE]

DDLRecord(t, r) ==
    [table |-> t, info |-> r.info, queries |-> r.queries, hit |-> r.hit,
     stored |-> t \in DOMAIN r.cache, whChanged |-> FALSE]

NoDDL == [table |-> None, info |-> TableInfo(None, <<>>, None, NoCount), queries |-> 0,
          hit |-> FALSE, stored |-> FALSE, whChanged |-> FALSE]

\* The bookkeeping of one get_table_ddl call on the shared state.
DescribeStep(t) ==
    LET r == GetTableDDL(schema_cache, wh, t)
    IN  /\ schema_cache' = r.cache
        /\ lastDDL' = DDLRecord(t, r)
        /\ prevDDL' = lastDDL

-----------------------------------------------------------------------------
(* The questions: each is a real text with the features the scorers and the *)
(* substring fallback extract from it, for the tables above.               *)
(*   QA "How many records are in the tracking table?"                      *)
(*   QB "Explain what data retention means"                                *)
(*   QC "show me all tables"                                               *)
(*   QH "hello"                                                            *)
(*   QX "what is it: explain, describe, define; how do we tell me about    *)
(*       the concept of advice because commonly"                           *)

Questions == {"QA", "QB", "QC", "QH", "QX"}

\* sqlKw, ragKw: the weights (in tenths) of the vocabulary entries found in
\* the text; tables, columns, terms: the table names, column names and
\* relational nouns found; sqlPat, ragPat: the patterns that match.
Features(q) ==
    CASE q = "QA" -> [sqlKw |-> <<8>>, ragKw |-> <<>>, tables |-> 1, columns |-> 0,
                      terms |-> 2, sqlPat |-> 1, ragPat |-> 0]
      [] q = "QB" -> [sqlKw |-> <<>>, ragKw |-> <<9>>, tables |-> 0, columns |-> 0,
                      terms |-> 1, sqlPat |-> 0, ragPat |-> 1]
      [] q = "QC" -> [sqlKw |-> <<7>>, ragKw |-> <<>>, tables |-> 0, columns |-> 0,
                      terms |-> 1, sqlPat |-> 1, ragPat |-> 0]
      [] q = "QX" -> [sqlKw |-> <<>>, ragKw |-> <<9, 9, 9, 9, 8, 8, 8, 6>>, tables |-> 0,
                      columns |-> 0, terms |-> 0, sqlPat |-> 0, ragPat |-> 8]
      [] OTHER    -> [sqlKw |-> <<>>, ragKw |-> <<>>, tables |-> 0, columns |-> 0,
                      terms |-> 0, sqlPat |-> 0, ragPat |-> 0]

\* Tables whose lower-cased name contains a question word longer than 3 characters.
\*   QO "show onetrust vendors" (asked of determine_relevant_tables only)
TableWords(q) ==
    CASE q = "QA" -> {"TRACKING", "DIA_TRACKING_DATA_OT"}
      [] q = "QO" -> {"ONETRUST_ASSETS", "ONETRUST_CONTROLS", "ONETRUST_INCIDENTS",
                      "ONETRUST_RISKS", "ONETRUST_USERS", "ONETRUST_VENDORS"}
      [] OTHER -> {}

-----------------------------------------------------------------------------
(* SQLAgent.get_available_tables: the names the metadata query returned, in *)
(* name order; empty when the query failed or returned no rows.            *)

DiscoveryOutcomes == {<<>>, <<"TRACKING">>, <<"ONETRUST_VENDORS", "TRACKING">>}

-----------------------------------------------------------------------------
(* SQLAgent.determine_relevant_tables *)

Range(s) == {s[i] : i \in 1..Len(s)}

TakeAll(s, n) == s

Take(s, n) == IF Len(s) <= n THEN s ELSE SubSeq(s, 1, n)

RelevantCap == 5

\* The reply's lines, already stripped of blanks and dashes; ok is FALSE when
\* the completion-service call raised.
RelevanceReplies ==
    {[ok |-> FALSE, lines |-> <<>>]} \cup
    {[ok |-> TRUE, lines |-> l] :
        l \in {<<"NONE">>, <<"TRACKING">>, <<"ONETRUST_VENDORS", "TRACKING">>, <<"BOGUS">>}}

KnownNames(lines, available) ==
    LET Keep(n) == n # "" /\ n # "NONE" /\ n \in Range(available)
    IN  SelectSeq(lines, Keep)

SubstringFallback(q, available) ==
    LET Keep(t) == t \in TableWords(q)
    IN  SelectSeq(available, Keep)

DetermineRelevantTables(q, available, reply) ==
    IF available = <<>> THEN <<>>
    ELSE IF ~reply.ok THEN Take(SubstringFallback(q, available), RelevantCap)
    ELSE LET named == KnownNames(reply.lines, available)
         IN  IF named = <<>>
             THEN Take(SubstringFallback(q, available), RelevantCap)
             ELSE Take(named, RelevantCap)

-----------------------------------------------------------------------------
(* SQLAgent.generate_sql_query, validate_query, correct_query_errors *)

\* A reply of the completion service that carries SQL: the Markdown fence
\* around it and the SQL text inside; ok is FALSE when the call raised.
SqlReply(ok, fence, body) == [ok |-> ok, fence |-> fence, body |-> body]

\* The fence is cut from both ends and the rest is stripped.
StripFences(reply) == reply.body

GenReplies ==
    {SqlReply(FALSE, "none", "")} \cup
    {SqlReply(TRUE, f, b) : f \in {"none", "sql"}, b \in {"", "q1"}}

GenerateSqlQuery(reply) == IF ~reply.ok THEN "" ELSE StripFences(reply)

\* The validation reply: its form, and the CORRECTED part when it has one.
ValidationReplies ==
    {[ok |-> FALSE, form |-> "OTHER", fence |-> "none", body |-> ""]} \cup
    {[ok |-> TRUE, form |-> f, fence |-> "none", body |-> ""] :
        f \in {"VALID", "INVALID", "OTHER"}} \cup
    {[ok |-> TRUE, form |-> "INVALID_CORRECTED", fence |-> "plain", body |-> b] :
        b \in {"", "q2"}}

\* What is remembered of the validation pass until the first execution is over:
\* the generated query with the completion calls made so far, and the reply.
NoGenQuery == [set |-> FALSE, query |-> None, calls |-> 0]
NoValReply == [ok |-> FALSE, form |-> "NONE", fence |-> "none", body |-> ""]

ValidateQueryIgnoresCorrection(q, reply) == [is_valid |-> TRUE, validated_query |-> q]

\* (is_valid, validated_query)
ValidateQuery(q, reply) ==
    IF ~reply.ok THEN [is_valid |-> TRUE, validated_query |-> q]
    ELSE CASE reply.form = "VALID" -> [is_valid |-> TRUE, validated_query |-> q]
           [] reply.form = "INVALID_CORRECTED" ->
                [is_valid |-> FALSE, validated_query |-> StripFences(reply)]
           [] reply.form = "INVALID" -> [is_valid |-> FALSE, validated_query |-> q]
           [] OTHER -> [is_valid |-> TRUE, validated_query |-> q]

CorrectionReplies ==
    {SqlReply(FALSE, "none", "")} \cup
    {SqlReply(TRUE, "sql", b) : b \in Queries \cup {""}}

CorrectQueryErrors(q, reply) == IF ~reply.ok THEN q ELSE StripFences(reply)

-----------------------------------------------------------------------------
(* SQLAgent.format_response *)

Response(kind, err, sql, csv, summary) ==
    [kind |-> kind, error |-> err, sql |-> sql, csv_link |-> csv, summary |-> summary]

NoResponse == Response("none", None, None, FALSE, None)

FormatFailureStale(res, q) ==
    IF corrCount > 0
    THEN Response("exec_error", lastCorr.error, lastCorr.query, FALSE, None)
    ELSE Response("exec_error", res.error, q, FALSE, None)

\* The text for a failed result: the error text and the query attempted.
FormatFailure(res, q) == Response("exec_error", res.error, q, FALSE, None)

\* The result reaches the summary path: it succeeded and its data is neither
\* None nor an empty frame.
HasRows(res) == res.success /\ ~(res.data = NoCount \/ res.data = 0)

FormatResponse(res, q, csvOk, summaryOk) ==
    IF ~res.success THEN FormatFailure(res, q)
    ELSE IF ~HasRows(res) THEN Response("no_data", None, q, FALSE, None)
    ELSE Response("summary", None, q, csvOk, IF summaryOk THEN "llm" ELSE "fallback")

FormatEffectsAlways(res) == [llm |-> 1, artifacts |-> 1]

\* What format_response does on the way: its completion-service calls and its
\* to_csv calls, both made on the summary path only.
FormatEffects(res) ==
    IF HasRows(res) THEN [llm |-> 1, artifacts |-> 1] ELSE [llm |-> 0, artifacts |-> 0]

-----------------------------------------------------------------------------
(* SQLAgent.process_question, one action per step *)

RetryValues == (0 - 1)..MaxRetriesBound

DefaultMaxRetries == 2

\* The entry of process_question: the locals of a fresh call.
EnterPipeline(q, n, who) ==
    /\ caller' = who
    /\ question' = q
    /\ max_retries' = n
    /\ available_tables' = <<>>
    /\ relevant_tables' = <<>>
    /\ table_infos' = <<>>
    /\ ddl_i' = 1
    /\ query' = ""
    /\ retry_count' = 0
    /\ result' = NoResult
    /\ response' = NoResponse
    /\ execCount' = 0
    /\ corrCount' = 0
    /\ lastExec' = [query |-> None, error |-> None]
    /\ lastCorr' = [query |-> None, error |-> None, precQuery |-> None, precError |-> None]
    /\ llmCalls' = 0
    /\ pc' = "pq_tables"

\* A direct call process_question(question, max_retries).
PQCall ==
    /\ pc = "idle"
    /\ \E q \in Questions, n \in RetryValues : EnterPipeline(q, n, "direct")
    /\ UNCHANGED <<auxVars, wh, ddlVars, confidence_threshold, routerVars>>

\* Step 1: get_available_tables.
PQTables ==
    /\ pc = "pq_tables"
    /\ \E d \in DiscoveryOutcomes :
         /\ available_tables' = d
         /\ IF d = <<>>
            THEN /\ response' = Response("no_tables", None, None, FALSE, None)
                 /\ pc' = "pq_return"
            ELSE /\ response' = response
                 /\ pc' = "pq_relevant"
    /\ UNCHANGED <<auxVars, confidence_threshold, routerVars, wh, ddlVars, caller, question, max_retries, relevant_tables,
                   table_infos, ddl_i, query, retry_count, result, execCount, corrCount,
                   lastExec, lastCorr, llmCalls>>

\* Step 2: determine_relevant_tables.
PQRelevant ==
    /\ pc = "pq_relevant"
    /\ \E reply \in RelevanceReplies :
         LET rel == DetermineRelevantTables(question, available_tables, reply)
         IN  /\ relevant_tables' = rel
             /\ IF rel = <<>>
                THEN /\ response' = Response("no_relevant", None, None, FALSE, None)
                     /\ pc' = "pq_return"
                ELSE /\ response' = response
                     /\ pc' = "pq_schema"
    /\ llmCalls' = llmCalls + 1
    /\ ddl_i' = 1
    /\ UNCHANGED <<auxVars, confidence_threshold, routerVars, wh, ddlVars, caller, question, max_retries, available_tables,
                   table_infos, query, retry_count, result, execCount, corrCount,
                   lastExec, lastCorr>>

HasSchemaAlways(info) == TRUE

\* if table_info.columns: only a table with a non-empty schema is kept
HasSchema(info) == info.columns # <<>>

\* Step 3: one turn of the schema loop, and the check after its last turn.
PQSchema ==
    /\ pc = "pq_schema"
    /\ ddl_i <= Len(relevant_tables)
    /\ LET t == relevant_tables[ddl_i]
           r == GetTableDDL(schema_cache, wh, t)
           infos == IF HasSchema(r.info) THEN Append(table_infos, r.info)
                    ELSE table_infos
       IN  /\ DescribeStep(t)
           /\ table_infos' = infos
           /\ ddl_i' = ddl_i + 1
           /\ IF ddl_i < Len(relevant_tables)
              THEN /\ pc' = "pq_schema"
                   /\ response' = response
              ELSE IF infos = <<>>
              THEN /\ response' = Response("no_schema", None, None, FALSE, None)
                   /\ pc' = "pq_return"
              ELSE /\ response' = response
                   /\ pc' = "pq_generate"
    /\ UNCHANGED <<auxVars, confidence_threshold, routerVars, wh, caller, question, max_retries, available_tables, relevant_tables,
                   query, retry_count, result, execCount, corrCount, lastExec, lastCorr,
                   llmCalls>>

NeverEmptyText(text) == FALSE

\* if not query: the text is the empty string
EmptyText(text) == text = ""

\* Step 4: generate_sql_query.
PQGenerate ==
    /\ pc = "pq_generate"
    /\ \E reply \in GenReplies :
         LET q == GenerateSqlQuery(reply)
         IN  /\ query' = q
             /\ IF EmptyText(q)
                THEN /\ response' = Response("no_query", None, None, FALSE, None)
                     /\ pc' = "pq_return"
                ELSE /\ response' = response
                     /\ pc' = "pq_validate"
    /\ llmCalls' = llmCalls + 1
    /\ UNCHANGED <<auxVars, confidence_threshold, routerVars, wh, ddlVars, caller, question, max_retries, available_tables,
                   relevant_tables, table_infos, ddl_i, retry_count, result, execCount,
                   corrCount, lastExec, lastCorr>>

\* Step 5: validate_query; the loop is entered with retry_count = 0.
PQValidate ==
    /\ pc = "pq_validate"
    /\ \E reply \in ValidationReplies :
         LET v == ValidateQuery(query, reply)
         IN  /\ query' = IF ~v.is_valid THEN v.validated_query ELSE query
             /\ valReply' = reply
    /\ genQuery' = [set |-> TRUE, query |-> query, calls |-> llmCalls]
    /\ llmCalls' = llmCalls + 1
    /\ retry_count' = 0
    /\ pc' = "pq_loop"
    /\ UNCHANGED <<moreVars, catVars, llmVars, connVars, relVars, confidence_threshold, routerVars, wh, ddlVars, caller, question, max_retries, available_tables,
                   relevant_tables, table_infos, ddl_i, result, response, execCount,
                   corrCount, lastExec, lastCorr>>

\* Whether the loop asks for a correction after a failed execution.
MayCorrectAlways(rc, n) == TRUE

MayCorrect(rc, n) == rc < n

\* Step 6: the loop test and one execution of the query.
PQExecute ==
    /\ pc = "pq_loop"
    /\ retry_count <= max_retries
    /\ \E raised \in BOOLEAN, hasColumns \in BOOLEAN, rows \in RowCounts, err \in Errors :
         LET res == ExecuteQuery(query, raised, hasColumns, rows, err)
         IN  /\ result' = res
             /\ lastExec' = [query |-> query, error |-> res.error]
             /\ pc' = IF res.success THEN "pq_format"
                      ELSE IF MayCorrect(retry_count, max_retries) THEN "pq_correct"
                      ELSE "pq_format"
    /\ execCount' = execCount + 1
    /\ UNCHANGED <<auxVars, confidence_threshold, routerVars, wh, ddlVars, caller, question, max_retries, available_tables,
                   relevant_tables, table_infos, ddl_i, query, retry_count, response,
                   corrCount, lastCorr, llmCalls>>

\* The loop test fails: the text after the loop.
PQPersistent ==
    /\ pc = "pq_loop"
    /\ ~(retry_count <= max_retries)
    /\ response' = Response("persistent", None, None, FALSE, None)
    /\ pc' = "pq_return"
    /\ UNCHANGED <<auxVars, confidence_threshold, routerVars, wh, ddlVars, caller, question, max_retries, available_tables,
                   relevant_tables, table_infos, ddl_i, query, retry_count, result,
                   execCount, corrCount, lastExec, lastCorr, llmCalls>>

\* Step 8: correct_query_errors(query, result.error, table_infos).
PQCorrect ==
    /\ pc = "pq_correct"
    /\ \E reply \in CorrectionReplies :
         LET corrected == CorrectQueryErrors(query, reply)
         IN  IF corrected # query
             THEN /\ query' = corrected
                  /\ retry_count' = retry_count + 1
                  /\ pc' = "pq_loop"
             ELSE /\ query' = query
                  /\ retry_count' = retry_count
                  /\ pc' = "pq_format"
    /\ lastCorr' = [query |-> query, error |-> result.error,
                    precQuery |-> lastExec.query, precError |-> lastExec.error]
    /\ corrCount' = corrCount + 1
    /\ llmCalls' = llmCalls + 1
    /\ UNCHANGED <<moreVars, catVars, llmVars, connVars, relVars, confidence_threshold, routerVars, wh, ddlVars, caller, question, max_retries, available_tables,
                   relevant_tables, table_infos, ddl_i, result, response, execCount,
                   lastExec>>
    /\ genQuery' = NoGenQuery
    /\ valReply' = NoValReply

\* Step 7: format_response(question, result, query).
PQExceptionEscapes == "pq_escaped"

\* Where control goes when a statement of process_question's try block raises.
PQOnException == "pq_except"

\* Steps 7 and the final return: format_response.  Its summary path runs code
\* outside its own handlers (summary.strip() on the completion's content, the
\* preview's to_string), which may raise into process_question.
PQFormat ==
    /\ pc = "pq_format"
    /\ \E csvOk \in BOOLEAN, summaryOk \in BOOLEAN, raises \in BOOLEAN :
         /\ ~HasRows(result) => (csvOk /\ summaryOk /\ ~raises)
         /\ raises => (csvOk /\ summaryOk)
         /\ IF raises
            THEN /\ response' = response
                 /\ pc' = PQOnException
            ELSE /\ response' = FormatResponse(result, query, csvOk, summaryOk)
                 /\ pc' = "pq_return"
    /\ llmCalls' = llmCalls + FormatEffects(result).llm
    /\ UNCHANGED <<moreVars, catVars, llmVars, connVars, relVars, confidence_threshold, routerVars, wh, ddlVars, caller, question, max_retries, available_tables,
                   relevant_tables, table_infos, ddl_i, query, retry_count, result,
                   execCount, corrCount, lastExec, lastCorr>>
    /\ genQuery' = NoGenQuery
    /\ valReply' = NoValReply

\* except Exception as e: return "I encountered an unexpected error ..."
PQExcept ==
    /\ pc = "pq_except"
    /\ response' = Response("unexpected", None, None, FALSE, None)
    /\ pc' = "pq_return"
    /\ UNCHANGED <<auxVars, confidence_threshold, routerVars, wh, ddlVars, pqRest>>

IdleLocals ==
    /\ question = "QH"
    /\ max_retries = DefaultMaxRetries
    /\ available_tables = <<>>
    /\ relevant_tables = <<>>
    /\ table_infos = <<>>
    /\ ddl_i = 1
    /\ query = ""
    /\ retry_count = 0
    /\ result = NoResult
    /\ execCount = 0
    /\ corrCount = 0
    /\ lastExec = [query |-> None, error |-> None]
    /\ lastCorr = [query |-> None, error |-> None, precQuery |-> None, precError |-> None]
    /\ llmCalls = 0

ClearLocals ==
    /\ question' = "QH"
    /\ max_retries' = DefaultMaxRetries
    /\ available_tables' = <<>>
    /\ relevant_tables' = <<>>
    /\ table_infos' = <<>>
    /\ ddl_i' = 1
    /\ query' = ""
    /\ retry_count' = 0
    /\ result' = NoResult
    /\ execCount' = 0
    /\ corrCount' = 0
    /\ lastExec' = [query |-> None, error |-> None]
    /\ lastCorr' = [query |-> None, error |-> None, precQuery |-> None, precError |-> None]
    /\ llmCalls' = 0

\* process_question returns its text to whoever called it; its locals are gone.
PQReturn ==
    /\ pc = "pq_return"
    /\ pc' = IF caller = "router" THEN "r_after_sql" ELSE "idle"
    /\ response' = IF caller = "router" THEN response ELSE NoResponse
    /\ caller' = "none"
    /\ ClearLocals
    /\ UNCHANGED <<moreVars, catVars, llmVars, connVars, relVars, wh, ddlVars, confidence_threshold, routerVars>>
    /\ genQuery' = NoGenQuery
    /\ valReply' = NoValReply

-----------------------------------------------------------------------------
(* QueryClassifier: the three scorers *)

\* The scorers' values are binary floating-point numbers in the source.  On
\* the questions and replies below no two totals differ by exactly 0.1, the
\* one place where rounding could change a comparison.
One == 1800
TotalOne == 4 * One

Min(a, b) == IF a <= b THEN a ELSE b
Max(a, b) == IF a >= b THEN a ELSE b

RECURSIVE SumSeq(_)
SumSeq(s) == IF s = <<>> THEN 0 ELSE Head(s) + SumSeq(Tail(s))

\* A weight in tenths as a score.
Tenths(w) == w * (One \div 10)

\* The average weight of the matched entries; 0.0 when none matched.
KeywordScore(ws) ==
    IF Len(ws) > 0 THEN Tenths(SumSeq(ws)) \div Len(ws) ELSE 0

KeywordAnalysis(q) ==
    [sql |-> KeywordScore(Features(q).sqlKw), rag |-> KeywordScore(Features(q).ragKw)]

TableWeight == 8
ColumnWeight == 6
TermWeight == 3

DatabaseContextAnalysis(q) ==
    LET f == Features(q)
        raw == Tenths(TableWeight * f.tables + ColumnWeight * f.columns
                      + TermWeight * f.terms)
        total_matches == f.tables + f.columns + f.terms
    IN  IF total_matches > 0 THEN Min(raw \div total_matches, One) ELSE raw

SqlPatternCount == 9
RagPatternCount == 8

PatternAnalysis(q) ==
    [sql |-> Min((Features(q).sqlPat * One) \div SqlPatternCount, One),
     rag |-> Min((Features(q).ragPat * One) \div RagPatternCount, One)]

-----------------------------------------------------------------------------
(* QueryClassifier._llm_classification *)

\* A confidence in hundredths as a score.
Hundredths(c) == c * (One \div 100)

\* The reply of the completion service: the text after "CLASSIFICATION:" and
\* the text after "CONFIDENCE:"; "absent" when the reply has no such line. A
\* confidence text is a number (in hundredths) or not a number at all.
ClsTexts == {"absent", "SQL", "sql", "rag", "SQL or RAG", "maybe"}
ConfTexts ==
    {[kind |-> "absent", value |-> 0], [kind |-> "text", value |-> 0]} \cup
    {[kind |-> "number", value |-> v] : v \in {0 - 50, 150}}

ClassifierReplies ==
    {[ok |-> FALSE, cls |-> "absent", conf |-> [kind |-> "absent", value |-> 0]]} \cup
    {[ok |-> TRUE, cls |-> c, conf |-> k] : c \in ClsTexts, k \in ConfTexts}

Upper(text) ==
    CASE text = "sql" -> "SQL"
      [] text = "rag" -> "RAG"
      [] text = "SQL or RAG" -> "SQL OR RAG"
      [] text = "maybe" -> "MAYBE"
      [] OTHER -> text

ParseLabel(cls) ==
    IF cls = "absent" THEN "ambiguous"
    ELSE IF Upper(cls) \in {"SQL", "SQL OR RAG"} THEN "sql"
    ELSE IF Upper(cls) = "RAG" THEN "rag"
    ELSE "ambiguous"

DefaultConfidence == 50

NoClamp(c) == c

\* max(0.0, min(1.0, confidence)), in hundredths
ClampConfidence(c) == Max(0, Min(100, c))

\* float(text) then the clamp; ValueError gives the default.  float accepts
\* "nan", and max(0.0, min(1.0, nan)) is 1.0.
ParseConfidence(conf) ==
    CASE conf.kind = "number" -> ClampConfidence(conf.value)
      [] conf.kind = "nan" -> 100
      [] OTHER -> DefaultConfidence

\* (classification, confidence): the verdict, ambiguous at 0.5 when the call raised
LlmClassification(reply) ==
    IF ~reply.ok THEN [label |-> "ambiguous", confidence |-> Hundredths(DefaultConfidence)]
    ELSE [label |-> ParseLabel(reply.cls),
          confidence |-> Hundredths(ParseConfidence(reply.conf))]

-----------------------------------------------------------------------------
(* QueryClassifier.classify_query *)

FinalScoresVerdictForBoth(q, verdict) ==
    [sql |-> KeywordAnalysis(q).sql + DatabaseContextAnalysis(q) + PatternAnalysis(q).sql
             + (IF verdict.label # "rag" THEN verdict.confidence ELSE 0),
     rag |-> KeywordAnalysis(q).rag + (One - DatabaseContextAnalysis(q))
             + PatternAnalysis(q).rag
             + (IF verdict.label # "sql" THEN verdict.confidence ELSE 0)]

\* final_sql_score and final_rag_score, each times four (the weights are 0.25)
FinalScores(q, verdict) ==
    [sql |-> KeywordAnalysis(q).sql + DatabaseContextAnalysis(q) + PatternAnalysis(q).sql
             + (IF verdict.label = "sql" THEN verdict.confidence ELSE 0),
     rag |-> KeywordAnalysis(q).rag + (One - DatabaseContextAnalysis(q))
             + PatternAnalysis(q).rag
             + (IF verdict.label = "rag" THEN verdict.confidence ELSE 0)]

Abs(x) == IF x < 0 THEN 0 - x ELSE x

\* 0.1, 0.5, 0.95 and 1.0 of a total
CloseMargin == TotalOne \div 10
AmbiguousConfidence == TotalOne \div 2
ConfidenceCap == (TotalOne * 95) \div 100
ForcedConfidence == TotalOne

NoCap(score) == score

\* min(score, 0.95)
CapConfidence(score) == Min(score, ConfidenceCap)

ClassificationResult(type, conf, reasoning, route) ==
    [query_type |-> type, confidence |-> conf, reasoning |-> reasoning,
     suggested_route |-> route]

NoClassification == ClassificationResult("None", 0, None, None)

SuggestedRoute(type) ==
    CASE type = "sql" -> "SQL Database Agent"
      [] type = "rag" -> "RAG Knowledge Agent"
      [] OTHER -> "Manual Review Required"

ClassifyTotals(totals) ==
    IF Abs(totals.sql - totals.rag) < CloseMargin
    THEN ClassificationResult("ambiguous", AmbiguousConfidence, "Ambiguous query",
                              SuggestedRoute("ambiguous"))
    ELSE IF totals.sql > totals.rag
    THEN ClassificationResult("sql", CapConfidence(totals.sql), "SQL classification",
                              SuggestedRoute("sql"))
    ELSE ClassificationResult("rag", CapConfidence(totals.rag), "RAG classification",
                              SuggestedRoute("rag"))

ClassifyQuery(q, reply) == ClassifyTotals(FinalScores(q, LlmClassification(reply)))

-----------------------------------------------------------------------------
(* RouterAgent.route_query, one action per step *)

\* confidence_threshold as the repository constructs its routers
Thresholds == {36, 70}

\* The text before the question, and the force_route argument.
Prefixes == {"", "Force SQL ", "force rag "}
ForceArgs == {None, "sql", "RAG", "auto"}

Lower(text) ==
    CASE text = "Force SQL " -> "force sql "
      [] text = "RAG" -> "rag"
      [] OTHER -> text

\* if force_route: a None or empty argument is not a directive
Truthy(arg) == arg # None /\ arg # ""

Envelope(cls, resp, disclaimer, agent, success, error, timed) ==
    [classification |-> cls, response |-> resp, disclaimer |-> disclaimer,
     agent_used |-> agent, success |-> success, error |-> error,
     execution_time_set |-> timed]

NoCalls == [classifier |-> 0, llm |-> 0, sql |-> 0, rag |-> 0, clarify |-> 0,
            asked |-> [prefix |-> "", question |-> None], raised |-> FALSE,
            verdict |-> [label |-> None, confidence |-> 0]]

NoTotals == [sql |-> 0, rag |-> 0]

IdleRouter ==
    /\ r_input = [prefix |-> "", question |-> "QH", force_route |-> None]
    /\ r_query = [prefix |-> "", question |-> "QH"]
    /\ force_route = None
    /\ classification = NoClassification
    /\ clsTotals = NoTotals
    /\ routeTotals = NoTotals
    /\ env = Envelope(NoClassification, NoResponse, FALSE, None, FALSE, None, FALSE)
    /\ calls = NoCalls

ClearRouter ==
    /\ r_input' = [prefix |-> "", question |-> "QH", force_route |-> None]
    /\ r_query' = [prefix |-> "", question |-> "QH"]
    /\ force_route' = None
    /\ classification' = NoClassification
    /\ clsTotals' = NoTotals
    /\ routeTotals' = NoTotals
    /\ env' = Envelope(NoClassification, NoResponse, FALSE, None, FALSE, None, FALSE)
    /\ calls' = NoCalls

\* route_query(query, force_route): the envelope as first built.
RouteCall ==
    /\ pc = "idle"
    /\ \E p \in Prefixes, q \in Questions, f \in ForceArgs :
         /\ r_input' = [prefix |-> p, question |-> q, force_route |-> f]
         /\ force_route' = f
    /\ r_query' = [prefix |-> r_input'.prefix, question |-> r_input'.question]
    /\ classification' = NoClassification
    /\ clsTotals' = NoTotals
    /\ routeTotals' = NoTotals
    /\ env' = Envelope(NoClassification, NoResponse, FALSE, None, FALSE, None, FALSE)
    /\ calls' = NoCalls
    /\ pc' = "r_parse"
    /\ UNCHANGED <<auxVars, wh, ddlVars, pqVars, confidence_threshold>>

\* query[10:].strip()
Strip(q) == [q EXCEPT !.prefix = ""]

\* The directive a prefix carries, None for no directive.
PrefixDirective(p) ==
    CASE Lower(p) = "force sql " -> "sql"
      [] Lower(p) = "force rag " -> "rag"
      [] OTHER -> None

ForcedClassification(f) ==
    IF Lower(f) = "sql"
    THEN ClassificationResult("sql", ForcedConfidence, "Forced SQL routing",
                              "SQL Database Agent")
    ELSE ClassificationResult("rag", ForcedConfidence, "Forced RAG routing",
                              "RAG Knowledge Agent")

ExceptionEscapes == "escaped"

\* Where control goes when a statement inside the try block raises.
OnException == "r_except"

\* Whether the forced branch binds classification_result.
Binds(f) == Lower(f) \in {"sql", "rag"}

\* Prefix parsing and the forced classification.
RouteParse ==
    /\ pc = "r_parse"
    /\ LET d == PrefixDirective(r_input.prefix)
           f == IF d # None THEN d ELSE force_route
       IN  /\ force_route' = f
           /\ r_query' = IF d # None THEN Strip(r_query) ELSE r_query
           /\ IF Truthy(f)
              THEN IF Binds(f)
                   THEN /\ classification' = ForcedClassification(f)
                        /\ env' = [env EXCEPT !.classification = ForcedClassification(f)]
                        /\ calls' = calls
                        /\ pc' = "r_dispatch"
                   ELSE /\ classification' = classification
                        /\ env' = env
                        /\ calls' = [calls EXCEPT !.raised = TRUE]
                        /\ pc' = OnException
              ELSE /\ classification' = classification
                   /\ env' = env
                   /\ calls' = calls
                   /\ pc' = "r_classify"
    /\ UNCHANGED <<auxVars, wh, ddlVars, pqVars, confidence_threshold, r_input, clsTotals,
                   routeTotals>>

\* classification_result = self.classifier.classify_query(query)
RouteClassify ==
    /\ pc = "r_classify"
    /\ \E reply \in ClassifierReplies :
         LET c == ClassifyQuery(r_query.question, reply)
         IN  /\ classification' = c
             /\ clsTotals' = FinalScores(r_query.question, LlmClassification(reply))
             /\ env' = [env EXCEPT !.classification = c]
             /\ calls' = [calls EXCEPT !.classifier = @ + 1, !.llm = @ + 1,
                                       !.verdict = LlmClassification(reply)]
    /\ pc' = "r_dispatch"
    /\ UNCHANGED <<auxVars, wh, ddlVars, pqVars, confidence_threshold, r_input, r_query,
                   force_route, routeTotals>>

\* confidence >= self.confidence_threshold, the threshold being in hundredths
SqlGate(conf, threshold) == conf * 100 >= threshold * TotalOne

RagFloor == 4
RagShare == 6

RagGateNoFloor(conf, threshold) == conf * 1000 >= RagShare * threshold * TotalOne

RagGateAsSql(conf, threshold) == SqlGate(conf, threshold)

\* confidence >= max(0.4, self.confidence_threshold * 0.6)
RagGate(conf, threshold) ==
    conf * 1000 >= Max(RagFloor * 100, RagShare * threshold) * TotalOne

Clarify ==
    /\ env' = [env EXCEPT !.response = Response("clarification", None, None, FALSE, None),
                          !.agent_used = "Router (Clarification)",
                          !.success = TRUE]
    /\ calls' = [calls EXCEPT !.clarify = @ + 1]
    /\ pc' = "r_finally"
    /\ UNCHANGED <<pqVars, routeTotals>>

\* self.sql_agent.ask(query): SimpleSQLAgent.ask calls process_question(question)
AskSql(c) ==
    /\ EnterPipeline(r_query.question, DefaultMaxRetries, "router")
    /\ calls' = [c EXCEPT !.sql = @ + 1, !.asked = r_query]

\* self.process_regular_query(query)
AskRag(c) ==
    /\ pc' = "r_rag"
    /\ calls' = [c EXCEPT !.rag = @ + 1, !.asked = r_query]
    /\ UNCHANGED pqVars

\* Route based on classification: the SQL and RAG branches.
RouteDispatch ==
    /\ pc = "r_dispatch"
    /\ classification.query_type \in {"sql", "rag"}
    /\ IF classification.query_type = "sql"
       THEN IF SqlGate(classification.confidence, confidence_threshold)
               \/ Truthy(force_route)
            THEN AskSql(calls) /\ UNCHANGED <<env, routeTotals>>
            ELSE Clarify
       ELSE IF RagGate(classification.confidence, confidence_threshold)
               \/ Truthy(force_route)
            THEN AskRag(calls) /\ UNCHANGED <<env, routeTotals>>
            ELSE Clarify
    /\ UNCHANGED <<auxVars, wh, ddlVars, confidence_threshold, r_input, r_query, force_route,
                   classification, clsTotals>>

SqlWinsTies(totals) == totals.sql >= totals.rag

\* if final_sql_score > final_rag_score
SqlWins(totals) == totals.sql > totals.rag

\* The ambiguous branch: the scores are computed again, with another
\* completion-service call, and the higher one is dispatched.
RouteAmbiguous ==
    /\ pc = "r_dispatch"
    /\ classification.query_type = "ambiguous"
    /\ \E reply \in ClassifierReplies :
         LET totals == FinalScores(r_query.question, LlmClassification(reply))
         IN  /\ routeTotals' = totals
             /\ IF SqlWins(totals)
                THEN AskSql([calls EXCEPT !.llm = @ + 1])
                ELSE AskRag([calls EXCEPT !.llm = @ + 1])
    /\ UNCHANGED <<auxVars, wh, ddlVars, confidence_threshold, r_input, r_query, force_route,
                   classification, clsTotals, env>>

RagOutcomes == {"rag_answer", "rag_no_answer", "rag_error"}

\* process_regular_query: an answer, the fixed no-answer text, or the text of
\* the error it caught.
RagAnswer ==
    /\ pc = "r_rag"
    /\ \E kind \in RagOutcomes : response' = Response(kind, None, None, FALSE, None)
    /\ pc' = "r_after_rag"
    /\ UNCHANGED <<auxVars, wh, ddlVars, pqRest, confidence_threshold, routerVars>>

NoDisclaimer(type) == FALSE

\* The best-guess disclaimer is appended in the ambiguous branch only.
Disclaimer(type) == type = "ambiguous"

AgentNameAlwaysSql(at) == "SQL Database Agent"

\* result['agent_used'] after the capability at this position has returned
AgentName(at) == IF at = "r_after_sql" THEN "SQL Database Agent" ELSE "RAG Knowledge Agent"

DispatchSuccessFromText(resp) ==
    resp.kind \in {"summary", "no_data", "rag_answer"}

\* result['success'] = True: set once the capability has returned, whatever
\* its text says.
DispatchSuccess(resp) == TRUE

\* The capability has returned: the envelope's response, agent_used and success.
RouteAfterCapability ==
    /\ pc \in {"r_after_sql", "r_after_rag"}
    /\ env' = [env EXCEPT !.response = response,
                          !.disclaimer = Disclaimer(classification.query_type),
                          !.agent_used = AgentName(pc),
                          !.success = DispatchSuccess(response)]
    /\ pc' = "r_finally"
    /\ UNCHANGED <<auxVars, wh, ddlVars, pqVars, confidence_threshold, r_input, r_query,
                   force_route, classification, clsTotals, routeTotals, calls>>

\* except Exception: the error text, the apology, success = False.
RouteExcept ==
    /\ pc = "r_except"
    /\ env' = [env EXCEPT !.error = "Error routing query",
                          !.response = Response("apology", None, None, FALSE, None),
                          !.success = FALSE]
    /\ pc' = "r_finally"
    /\ UNCHANGED <<auxVars, wh, ddlVars, pqVars, confidence_threshold, r_input, r_query,
                   force_route, classification, clsTotals, routeTotals, calls>>

\* finally: execution_time.
RouteFinally ==
    /\ pc = "r_finally"
    /\ env' = [env EXCEPT !.execution_time_set = TRUE]
    /\ pc' = "r_return"
    /\ UNCHANGED <<auxVars, wh, ddlVars, pqVars, confidence_threshold, r_input, r_query,
                   force_route, classification, clsTotals, routeTotals, calls>>

\* return result: the caller has the envelope; the locals are gone.
RouteReturn ==
    /\ pc = "r_return"
    /\ pc' = "idle"
    /\ ClearRouter
    /\ response' = NoResponse
    /\ UNCHANGED <<auxVars, wh, ddlVars, pqRest, confidence_threshold>>

-----------------------------------------------------------------------------
(* SQLAgent.get_available_tables on a warehouse catalogue *)

\* Table names of the warehouse's database, in ORDER BY TABLE_NAME order.
CatalogNames == <<"DIA_TRACKING_DATA_OT", "ONETRUST_VENDORS", "PAYROLL">>

\* A row of INFORMATION_SCHEMA.TABLES: whether TABLE_SCHEMA is the current
\* schema, and ROW_COUNT (NoCount for null).
CatalogRows == [current : BOOLEAN, rows : {NoCount, 0, 12}]

\* TABLE_NAME LIKE 'ONETRUST%'
LikeOneTrust(n) == n = "ONETRUST_VENDORS"

\* TABLE_NAME LIKE 'DIA_TRACKING_DATA_OT'
LikeTracking(n) == n = "DIA_TRACKING_DATA_OT"

\* The WHERE clause as SQL parses it: AND binds tighter than OR.
DiscoveryWhere(row, n) ==
    \/ /\ row.current
       /\ row.rows # NoCount
       /\ row.rows # 0
       /\ LikeOneTrust(n)
    \/ LikeTracking(n)

\* get_available_tables: a failed metadata query, and a result without rows
\* (result.data['TABLE_NAME'] raises on the empty frame), both give [].
GetAvailableTables(cat, ok) ==
    IF ok
    THEN SelectSeq(CatalogNames, LAMBDA n : DiscoveryWhere(cat[n], n))
    ELSE <<>>

NoTables == [called |-> FALSE, ok |-> FALSE, tables |-> <<>>]

IdleCat == lastTables = NoTables

ListTables ==
    /\ \E ok \in BOOLEAN :
         lastTables' = [called |-> TRUE, ok |-> ok,
                        tables |-> GetAvailableTables(catalog, ok)]
    /\ UNCHANGED <<coreVars, catalog, llmVars, connVars, relVars, valVars, moreVars>>

\* The metadata of a table changes: it is loaded, emptied or moved.
CatalogChange ==
    /\ \E i \in 1..Len(CatalogNames), row \in CatalogRows :
         /\ row # catalog[CatalogNames[i]]
         /\ catalog' = [catalog EXCEPT ![CatalogNames[i]] = row]
    /\ lastTables' = NoTables
    /\ UNCHANGED <<coreVars, llmVars, connVars, relVars, valVars, moreVars>>

-----------------------------------------------------------------------------
(* The state of the parts a specification does not exercise *)

\* _llm_classification on its own: the call, the parse, the return.
LlmReplies ==
    ClassifierReplies \cup
    {[ok |-> TRUE, cls |-> c, conf |-> k] :
        c \in {"SQL", "absent"},
        k \in {[kind |-> "nan", value |-> 0], [kind |-> "number", value |-> 80]}}

\* The reasoning returned: the exception text, the REASONING line, or the default.
LlmReasoning(reply, hasReason) ==
    IF ~reply.ok THEN "LLM classification error"
    ELSE IF hasReason THEN "given"
    ELSE "Could not parse LLM response"

NoLlmInput ==
    [stage |-> "idle", question |-> None, hasReason |-> FALSE,
     reply |-> [ok |-> FALSE, cls |-> "absent", conf |-> [kind |-> "absent", value |-> 0]]]

NoVerdict == [label |-> None, confidence |-> 0, reasoning |-> None]

IdleLlm ==
    /\ l_reply = NoLlmInput
    /\ l_verdict = NoVerdict
    /\ l_calls = 0

\* self.llm.generate_response(messages, temperature=0.1)
LlmInvoke ==
    /\ l_reply.stage = "idle"
    /\ \E q \in Questions, reply \in LlmReplies, hasReason \in BOOLEAN :
         l_reply' = [stage |-> "called", question |-> q, hasReason |-> hasReason,
                     reply |-> reply]
    /\ l_calls' = 1
    /\ l_verdict' = NoVerdict
    /\ UNCHANGED <<coreVars, catVars, connVars, relVars, valVars, moreVars>>

\* The parse of the reply, or the handler of the failed call.
LlmParse ==
    /\ l_reply.stage = "called"
    /\ l_verdict' = [label |-> LlmClassification(l_reply.reply).label,
                     confidence |-> LlmClassification(l_reply.reply).confidence,
                     reasoning |-> LlmReasoning(l_reply.reply, l_reply.hasReason)]
    /\ l_reply' = [l_reply EXCEPT !.stage = "returned"]
    /\ UNCHANGED <<coreVars, l_calls, catVars, connVars, relVars, valVars, moreVars>>

LlmReturn ==
    /\ l_reply.stage = "returned"
    /\ l_reply' = NoLlmInput
    /\ l_verdict' = NoVerdict
    /\ l_calls' = 0
    /\ UNCHANGED <<coreVars, catVars, connVars, relVars, valVars, moreVars>>

\* SnowflakeConnection.execute_query, statement by statement, for requests that
\* share the agent and so its one connection and cursor.
Requests == {1, 2}

\* A statement handed to the cursor: who issued it, and its text.
Statement(owner, text) == [owner |-> owner, text |-> text]
NoStatement == Statement(0, None)

\* self.cursor: the statement last executed and whether its rows are unread.
Cursor(stmt, unread) == [stmt |-> stmt, unread |-> unread]

\* What a request has in hand: its query, and whose columns and rows it read.
NoGot == [query |-> NoStatement, columns |-> NoStatement, rows |-> NoStatement]

IdleConn ==
    /\ cursor = Cursor(NoStatement, FALSE)
    /\ conn_pc = [t \in Requests |-> "idle"]
    /\ conn_got = [t \in Requests |-> NoGot]

\* execute_query(query) is entered.
ConnCall(t) ==
    /\ conn_pc[t] = "idle"
    /\ \E q \in Queries :
         conn_got' = [conn_got EXCEPT ![t] = [NoGot EXCEPT !.query = Statement(t, q)]]
    /\ conn_pc' = [conn_pc EXCEPT ![t] = "alter"]
    /\ UNCHANGED <<coreVars, cursor, catVars, llmVars, relVars, valVars, moreVars>>

\* self.cursor.execute("ALTER SESSION SET STATEMENT_TIMEOUT_IN_SECONDS = ...")
ConnAlter(t) ==
    /\ conn_pc[t] = "alter"
    /\ cursor' = Cursor(Statement(t, "ALTER SESSION"), FALSE)
    /\ conn_pc' = [conn_pc EXCEPT ![t] = "execute"]
    /\ UNCHANGED <<coreVars, conn_got, catVars, llmVars, relVars, valVars, moreVars>>

\* self.cursor.execute(query)
ConnExecute(t) ==
    /\ conn_pc[t] = "execute"
    /\ cursor' = Cursor(conn_got[t].query, TRUE)
    /\ conn_pc' = [conn_pc EXCEPT ![t] = "describe"]
    /\ UNCHANGED <<coreVars, conn_got, catVars, llmVars, relVars, valVars, moreVars>>

\* columns = [desc[0] for desc in self.cursor.description]
ConnDescribe(t) ==
    /\ conn_pc[t] = "describe"
    /\ conn_got' = [conn_got EXCEPT ![t].columns = cursor.stmt]
    /\ conn_pc' = [conn_pc EXCEPT ![t] = "fetch"]
    /\ UNCHANGED <<coreVars, cursor, catVars, llmVars, relVars, valVars, moreVars>>

\* rows = self.cursor.fetchall(): the unread rows of the cursor's statement.
ConnFetch(t) ==
    /\ conn_pc[t] = "fetch"
    /\ conn_got' = [conn_got EXCEPT
                      ![t].rows = IF cursor.unread THEN cursor.stmt ELSE NoStatement]
    /\ cursor' = Cursor(cursor.stmt, FALSE)
    /\ conn_pc' = [conn_pc EXCEPT ![t] = "done"]
    /\ UNCHANGED <<coreVars, catVars, llmVars, relVars, valVars, moreVars>>

\* return QueryResult(...)
ConnReturn(t) ==
    /\ conn_pc[t] = "done"
    /\ conn_got' = [conn_got EXCEPT ![t] = NoGot]
    /\ conn_pc' = [conn_pc EXCEPT ![t] = "idle"]
    /\ UNCHANGED <<coreVars, cursor, catVars, llmVars, relVars, valVars, moreVars>>

\* determine_relevant_tables called on discovered lists longer than its cap.
RelUniverse ==
    <<"DIA_TRACKING_DATA_OT", "ONETRUST_ASSETS", "ONETRUST_CONTROLS",
      "ONETRUST_INCIDENTS", "ONETRUST_RISKS", "ONETRUST_USERS", "ONETRUST_VENDORS">>

RelAvailable == {SubSeq(RelUniverse, 1, n) : n \in 0..Len(RelUniverse)}

RelQuestions == {"QA", "QO", "QH"}

\* Replies: a failed call, NONE, an invented name, every discovered name, and
\* repeated and invented names among discovered ones.
RelReplies ==
    {[ok |-> FALSE, lines |-> <<>>]} \cup
    {[ok |-> TRUE, lines |-> l] :
        l \in {<<"NONE">>, <<"BOGUS">>, RelUniverse,
               <<"ONETRUST_VENDORS", "BOGUS", "ONETRUST_VENDORS", "ONETRUST_RISKS">>,
               <<"ONETRUST_USERS", "ONETRUST_RISKS", "", "ONETRUST_ASSETS",
                 "DIA_TRACKING_DATA_OT", "ONETRUST_CONTROLS", "ONETRUST_INCIDENTS">>}}

NoRelInput ==
    [stage |-> "idle", question |-> None, available |-> <<>>,
     reply |-> [ok |-> FALSE, lines |-> <<>>]]

IdleRel ==
    /\ rel_in = NoRelInput
    /\ rel_out = <<>>

RelCall ==
    /\ pc = "idle"
    /\ rel_in.stage = "idle"
    /\ \E q \in RelQuestions, available \in RelAvailable, reply \in RelReplies :
         rel_in' = [stage |-> "called", question |-> q, available |-> available,
                    reply |-> reply]
    /\ rel_out' = <<>>
    /\ UNCHANGED <<coreVars, catVars, llmVars, connVars, valVars, moreVars>>

RelAnswer ==
    /\ rel_in.stage = "called"
    /\ rel_out' = DetermineRelevantTables(rel_in.question, rel_in.available, rel_in.reply)
    /\ rel_in' = [rel_in EXCEPT !.stage = "returned"]
    /\ UNCHANGED <<coreVars, catVars, llmVars, connVars, valVars, moreVars>>

RelReturn ==
    /\ rel_in.stage = "returned"
    /\ rel_in' = NoRelInput
    /\ rel_out' = <<>>
    /\ UNCHANGED <<coreVars, catVars, llmVars, connVars, valVars, moreVars>>

\* format_response(question, query_result, query) called on its own.  textual
\* says whether the completion's content is text: summary.strip() is outside
\* the handlers and raises on any other content.
NoFmtInput ==
    [stage |-> "idle", result |-> NoResult, query |-> None, csvOk |-> FALSE,
     summaryOk |-> FALSE, textual |-> FALSE]

NoFmtOutput ==
    [returned |-> FALSE, response |-> NoResponse, llm |-> 0, artifacts |-> 0,
     written |-> FALSE]

IdleFmt ==
    /\ f_in = NoFmtInput
    /\ f_out = NoFmtOutput

FmtCall ==
    /\ f_in.stage = "idle"
    /\ \E ok \in BOOLEAN, rows \in RowCounts, err \in Errors, q \in Queries,
          csvOk \in BOOLEAN, summaryOk \in BOOLEAN, textual \in BOOLEAN :
         f_in' = [stage |-> "called", result |-> QueryResult(ok, rows, err, q),
                  query |-> q, csvOk |-> csvOk, summaryOk |-> summaryOk,
                  textual |-> textual]
    /\ f_out' = NoFmtOutput
    /\ UNCHANGED <<coreVars, catVars, llmVars, connVars, relVars, valVars, getVars>>

FmtRun ==
    /\ f_in.stage = "called"
    /\ LET res == f_in.result
           raises == HasRows(res) /\ f_in.summaryOk /\ ~f_in.textual
       IN  f_out' = [returned |-> ~raises,
                     response |-> IF raises THEN NoResponse
                                  ELSE FormatResponse(res, f_in.query, f_in.csvOk,
                                                      f_in.summaryOk),
                     llm |-> FormatEffects(res).llm,
                     artifacts |-> FormatEffects(res).artifacts,
                     written |-> FormatEffects(res).artifacts > 0 /\ f_in.csvOk]
    /\ f_in' = [f_in EXCEPT !.stage = "returned"]
    /\ UNCHANGED <<coreVars, catVars, llmVars, connVars, relVars, valVars, getVars>>

FmtReturn ==
    /\ f_in.stage = "returned"
    /\ f_in' = NoFmtInput
    /\ f_out' = NoFmtOutput
    /\ UNCHANGED <<coreVars, catVars, llmVars, connVars, relVars, valVars, getVars>>

\* get_table_ddl, statement by statement, for requests that share the agent.
NoGet == [table |-> None, info |-> TableInfo(None, <<>>, None, NoCount), queries |-> 0]

IdleGet ==
    /\ g_pc = [t \in Requests |-> "idle"]
    /\ g_got = [t \in Requests |-> NoGet]

getRest == <<wh, lastDDL, prevDDL, pc, pqVars, confidence_threshold, routerVars, catVars,
             llmVars, connVars, relVars, valVars, fmtVars>>

\* get_table_ddl(table_name) is entered.
GetCall(r) ==
    /\ g_pc[r] = "idle"
    /\ \E t \in Tables : g_got' = [g_got EXCEPT ![r] = [NoGet EXCEPT !.table = t]]
    /\ g_pc' = [g_pc EXCEPT ![r] = "lookup"]
    /\ UNCHANGED <<getRest, schema_cache>>

\* if table_name in self.schema_cache: return self.schema_cache[table_name]
GetLookup(r) ==
    /\ g_pc[r] = "lookup"
    /\ IF CacheLookup(schema_cache, g_got[r].table)
       THEN /\ g_got' = [g_got EXCEPT ![r].info = schema_cache[g_got[r].table]]
            /\ g_pc' = [g_pc EXCEPT ![r] = "done"]
       ELSE /\ g_got' = g_got
            /\ g_pc' = [g_pc EXCEPT ![r] = "fetch"]
    /\ UNCHANGED <<getRest, schema_cache>>

\* The metadata queries, and the TableInfo built from their results.
GetFetch(r) ==
    /\ g_pc[r] = "fetch"
    /\ LET m == DDLMiss(g_got[r].table, wh[g_got[r].table])
       IN  /\ g_got' = [g_got EXCEPT ![r].info = m.info, ![r].queries = m.queries]
           /\ g_pc' = [g_pc EXCEPT ![r] = IF m.store THEN "store" ELSE "done"]
    /\ UNCHANGED <<getRest, schema_cache>>

\* self.schema_cache[table_name] = table_info
GetStore(r) ==
    /\ g_pc[r] = "store"
    /\ schema_cache' = (g_got[r].table :> g_got[r].info) @@ schema_cache
    /\ g_pc' = [g_pc EXCEPT ![r] = "done"]
    /\ UNCHANGED <<getRest, g_got>>

\* return table_info
GetReturn(r) ==
    /\ g_pc[r] = "done"
    /\ g_got' = [g_got EXCEPT ![r] = NoGet]
    /\ g_pc' = [g_pc EXCEPT ![r] = "idle"]
    /\ UNCHANGED <<getRest, schema_cache>>

IdleVal ==
    /\ genQuery = NoGenQuery
    /\ valReply = NoValReply

-----------------------------------------------------------------------------
(* The specifications *)

IdlePipeline ==
    /\ caller = "none"
    /\ IdleLocals
    /\ response = NoResponse

InitPQ ==
    /\ catalog = [n \in Range(CatalogNames) |-> [current |-> TRUE, rows |-> 12]]
    /\ IdleCat /\ IdleLlm /\ IdleConn /\ IdleRel /\ IdleVal /\ IdleFmt /\ IdleGet
    /\ wh \in WhScenarios
    /\ schema_cache = EmptyCache
    /\ lastDDL = NoDDL
    /\ prevDDL = NoDDL
    /\ pc = "idle"
    /\ IdlePipeline
    /\ IdleRouter
    /\ confidence_threshold = 70

PipelineStep ==
    \/ PQTables
    \/ PQRelevant
    \/ PQSchema
    \/ PQGenerate
    \/ PQValidate
    \/ PQExecute
    \/ PQPersistent
    \/ PQCorrect
    \/ PQFormat
    \/ PQExcept
    \/ PQReturn

NextPQ == PQCall \/ PipelineStep

vars == <<coreVars, auxVars>>

\* Direct calls of process_question.
SpecPQ == InitPQ /\ [][NextPQ]_vars

Init ==
    /\ catalog = [n \in Range(CatalogNames) |-> [current |-> TRUE, rows |-> 12]]
    /\ IdleCat /\ IdleLlm /\ IdleConn /\ IdleRel /\ IdleVal /\ IdleFmt /\ IdleGet
    /\ wh \in WhScenarios
    /\ schema_cache = EmptyCache
    /\ lastDDL = NoDDL
    /\ prevDDL = NoDDL
    /\ pc = "idle"
    /\ IdlePipeline
    /\ IdleRouter
    /\ confidence_threshold \in Thresholds

Next ==
    \/ RouteCall
    \/ RouteParse
    \/ RouteClassify
    \/ RouteDispatch
    \/ RouteAmbiguous
    \/ PQTables
    \/ PQRelevant
    \/ PQSchema
    \/ PQGenerate
    \/ PQValidate
    \/ PQExecute
    \/ PQCorrect
    \/ PQFormat
    \/ PQExcept
    \/ PQReturn
    \/ RagAnswer
    \/ RouteAfterCapability
    \/ RouteExcept
    \/ RouteFinally
    \/ RouteReturn

\* Calls of route_query on one router.
Spec == Init /\ [][Next]_vars

-----------------------------------------------------------------------------
(* The schema catalogue alone: direct calls of get_table_ddl on a warehouse *)
(* that may change between them                                            *)

\* get_table_ddl(table_name), called directly.
Describe ==
    /\ pc = "idle"
    /\ \E t \in Tables : DescribeStep(t)
    /\ UNCHANGED <<auxVars, wh, pc, pqVars, confidence_threshold, routerVars>>

\* A table's metadata changes or becomes (un)available in the warehouse.
WarehouseChange ==
    /\ pc = "idle"
    /\ \E t \in Tables, w \in WhStates :
         /\ w # wh[t]
         /\ wh' = [wh EXCEPT ![t] = w]
    /\ lastDDL' = [lastDDL EXCEPT !.whChanged = TRUE]
    /\ UNCHANGED <<auxVars, schema_cache, prevDDL, pc, pqVars, confidence_threshold, routerVars>>

InitDDL ==
    /\ catalog = [n \in Range(CatalogNames) |-> [current |-> TRUE, rows |-> 12]]
    /\ IdleCat /\ IdleLlm /\ IdleConn /\ IdleRel /\ IdleVal /\ IdleFmt /\ IdleGet
    /\ wh \in [Tables -> WhStates]
    /\ schema_cache = EmptyCache
    /\ lastDDL = NoDDL
    /\ prevDDL = NoDDL
    /\ pc = "idle"
    /\ IdlePipeline
    /\ IdleRouter
    /\ confidence_threshold = 70

NextDDL == Describe \/ WarehouseChange

SpecDDL == InitDDL /\ [][NextDDL]_vars

-----------------------------------------------------------------------------
(* Table discovery alone: get_available_tables on a changing catalogue *)

InitCat ==
    /\ catalog \in [Range(CatalogNames) -> CatalogRows]
    /\ IdleCat /\ IdleLlm /\ IdleConn /\ IdleRel /\ IdleVal /\ IdleFmt /\ IdleGet
    /\ wh = [t \in Tables |-> "up"]
    /\ schema_cache = EmptyCache
    /\ lastDDL = NoDDL
    /\ prevDDL = NoDDL
    /\ pc = "idle"
    /\ IdlePipeline
    /\ IdleRouter
    /\ confidence_threshold = 70

NextCat == ListTables \/ CatalogChange

SpecCat == InitCat /\ [][NextCat]_vars

-----------------------------------------------------------------------------
(* The completion-service classifier alone *)

InitLlm ==
    /\ catalog = [n \in Range(CatalogNames) |-> [current |-> TRUE, rows |-> 12]]
    /\ IdleCat /\ IdleLlm /\ IdleConn /\ IdleRel /\ IdleVal /\ IdleFmt /\ IdleGet
    /\ wh = [t \in Tables |-> "up"]
    /\ schema_cache = EmptyCache
    /\ lastDDL = NoDDL
    /\ prevDDL = NoDDL
    /\ pc = "idle"
    /\ IdlePipeline
    /\ IdleRouter
    /\ confidence_threshold = 70

NextLlm == LlmInvoke \/ LlmParse \/ LlmReturn

SpecLlm == InitLlm /\ [][NextLlm]_vars

-----------------------------------------------------------------------------
(* Two requests on one agent: their execute_query calls interleave *)

InitConn ==
    /\ catalog = [n \in Range(CatalogNames) |-> [current |-> TRUE, rows |-> 12]]
    /\ IdleCat /\ IdleLlm /\ IdleConn /\ IdleRel /\ IdleVal /\ IdleFmt /\ IdleGet
    /\ wh = [t \in Tables |-> "up"]
    /\ schema_cache = EmptyCache
    /\ lastDDL = NoDDL
    /\ prevDDL = NoDDL
    /\ pc = "idle"
    /\ IdlePipeline
    /\ IdleRouter
    /\ confidence_threshold = 70

NextConn ==
    \E t \in Requests :
        \/ ConnCall(t)
        \/ ConnAlter(t)
        \/ ConnExecute(t)
        \/ ConnDescribe(t)
        \/ ConnFetch(t)
        \/ ConnReturn(t)

SpecConn == InitConn /\ [][NextConn]_vars

-----------------------------------------------------------------------------
(* One agent over its lifetime: get_table_ddl, process_question and        *)
(* route_query called in any order on a warehouse that changes between the *)
(* calls.  The completion service is down for SQL generation, and the      *)
(* router is asked with the SQL directive, so every call reaches the       *)
(* schema step and ends after it.                                          *)

AgentAsk ==
    /\ PQCall
    /\ question' = "QA"
    /\ max_retries' = DefaultMaxRetries

AgentRoute ==
    /\ RouteCall
    /\ r_input' = [prefix |-> "", question |-> "QA", force_route |-> "sql"]

AgentGenerate ==
    /\ PQGenerate
    /\ query' = ""

NextAgent ==
    \/ Describe
    \/ WarehouseChange
    \/ AgentAsk
    \/ AgentRoute
    \/ RouteParse
    \/ RouteDispatch
    \/ PQTables
    \/ PQRelevant
    \/ PQSchema
    \/ AgentGenerate
    \/ PQReturn
    \/ RouteAfterCapability
    \/ RouteFinally
    \/ RouteReturn

SpecAgent == InitPQ /\ [][NextAgent]_vars

-----------------------------------------------------------------------------
(* Two requests on one agent: their get_table_ddl calls interleave *)

NextGet ==
    \E r \in Requests :
        \/ GetCall(r)
        \/ GetLookup(r)
        \/ GetFetch(r)
        \/ GetStore(r)
        \/ GetReturn(r)

SpecGet == InitDDL /\ [][NextGet]_vars

-----------------------------------------------------------------------------
(* The response formatter alone *)

NextFmt == FmtCall \/ FmtRun \/ FmtReturn

SpecFmt == InitLlm /\ [][NextFmt]_vars

-----------------------------------------------------------------------------
(* Relevance selection: direct calls of determine_relevant_tables on long    *)
(* discovered lists, and the calls process_question makes                    *)

NextRel ==
    \/ RelCall
    \/ RelAnswer
    \/ RelReturn
    \/ (rel_in.stage = "idle" /\ NextPQ)

SpecRel == InitPQ /\ [][NextRel]_vars

-----------------------------------------------------------------------------
(* The claims *)

InPipeline ==
    pc \in {"pq_tables", "pq_relevant", "pq_schema", "pq_generate", "pq_validate",
            "pq_loop", "pq_correct", "pq_format", "pq_except", "pq_return"}

\* C1: with max_retries = N >= 0, process_question makes at most N correction
\* calls and at most N + 1 executions of the query; a run in which every
\* execution failed and every correction changed the query ends after exactly
\* N + 1 executions and N corrections, and after the (N + 1)-th execution the
\* loop neither executes nor corrects again.
C1_RetryBudget ==
    (InPipeline /\ max_retries >= 0) =>
        /\ corrCount <= max_retries
        /\ execCount <= max_retries + 1
        /\ (execCount = max_retries + 1) => pc \in {"pq_format", "pq_except", "pq_return"}
        /\ (pc = "pq_return" /\ response.kind = "exec_error"
            /\ retry_count = max_retries) =>
               (execCount = max_retries + 1 /\ corrCount = max_retries)

C1_Witness ==
    /\ pc = "pq_return"
    /\ max_retries = DefaultMaxRetries
    /\ response.kind = "exec_error"
    /\ execCount = DefaultMaxRetries + 1
    /\ corrCount = DefaultMaxRetries

\* C2: when process_question ends on a failed execution, the text it returns
\* carries the error text and the SQL text of the last execution; and every
\* correction call is handed the query that just failed with the error text of
\* that execution.
C2_FailureReportsLastAttempt ==
    /\ (pc = "pq_return" /\ response.kind = "exec_error") =>
          /\ response.error \in Errors
          /\ response.error = lastExec.error
          /\ response.sql = lastExec.query
    /\ (InPipeline /\ corrCount > 0) =>
          /\ lastCorr.error \in Errors
          /\ lastCorr.error = lastCorr.precError
          /\ lastCorr.query = lastCorr.precQuery

C2_Witness ==
    /\ pc = "pq_return"
    /\ response.kind = "exec_error"
    /\ execCount = 3
    /\ corrCount = 2
    /\ lastCorr.error # lastExec.error
    /\ lastCorr.query # lastExec.query

Forced == PrefixDirective(r_input.prefix) # None \/ Truthy(r_input.force_route)

ForcedReasonings == {"Forced SQL routing", "Forced RAG routing"}

\* C3: every route_query call that carries a forced directive (a force prefix
\* or a non-empty force_route argument) returns a classification of confidence
\* 1.0 with the fixed forced-routing reasoning, calls neither the classifier
\* nor the completion service, invokes one capability with the prefix-stripped
\* question and produces no clarification.
C3_ForcedIsHonoured ==
    (pc = "r_return" /\ Forced) =>
        /\ env.classification.confidence = ForcedConfidence
        /\ env.classification.reasoning \in ForcedReasonings
        /\ calls.classifier = 0
        /\ calls.llm = 0
        /\ calls.sql + calls.rag = 1
        /\ calls.asked = [prefix |-> "", question |-> r_input.question]
        /\ calls.clarify = 0

Unforced == ~Forced /\ calls.classifier = 1

\* C4: for an unforced question whose classifier totals differ by less than
\* 0.1, the label is ambiguous with confidence 0.5, and route_query invokes
\* exactly one capability, produces no clarification, appends the best-guess
\* disclaimer and returns success = true.
C4_AmbiguousStillDispatches ==
    (pc = "r_return" /\ Unforced /\ Abs(clsTotals.sql - clsTotals.rag) * 10 < TotalOne) =>
        /\ env.classification.query_type = "ambiguous"
        /\ env.classification.confidence * 2 = TotalOne
        /\ calls.sql + calls.rag = 1
        /\ calls.clarify = 0
        /\ env.disclaimer
        /\ env.success
        /\ env.agent_used \in {"SQL Database Agent", "RAG Knowledge Agent"}
        /\ env.response.kind \notin {"none", "clarification", "apology"}

C4_Witness ==
    /\ pc = "r_return"
    /\ Unforced
    /\ confidence_threshold = 70
    /\ env.classification.query_type = "ambiguous"
    /\ clsTotals.sql # clsTotals.rag
    /\ env.disclaimer
    /\ calls.sql = 1

AmbiguousReturn ==
    pc = "r_return" /\ Unforced /\ env.classification.query_type = "ambiguous"

\* C5 as stated: in an ambiguous decision the structured capability is
\* dispatched when the two totals are exactly equal, and otherwise the
\* capability with the strictly higher total.
C5_TieFavorsStructured ==
    AmbiguousReturn =>
        /\ (routeTotals.sql >= routeTotals.rag) => calls.sql = 1
        /\ (routeTotals.sql < routeTotals.rag) => calls.rag = 1

\* C5 as amended: in an ambiguous decision the structured capability is
\* dispatched only when the structured total route_query computed is strictly
\* higher; on exact equality, and when the knowledge total is higher, the
\* knowledge capability is dispatched.
C5_TieFavorsKnowledge ==
    AmbiguousReturn =>
        /\ (routeTotals.sql > routeTotals.rag) => (calls.sql = 1 /\ calls.rag = 0)
        /\ (routeTotals.sql <= routeTotals.rag) => (calls.rag = 1 /\ calls.sql = 0)

C5_Witness ==
    /\ AmbiguousReturn
    /\ routeTotals.sql = routeTotals.rag
    /\ calls.rag = 1

\* C6: in an ambiguous decision the capability executed is the higher-scoring
\* one according to the totals the classifier computed when it produced the
\* ambiguous label, whatever the completion service replies.
C6_DispatchFollowsClassifierTotals ==
    AmbiguousReturn =>
        /\ (clsTotals.sql > clsTotals.rag) => calls.sql = 1
        /\ (clsTotals.rag > clsTotals.sql) => calls.rag = 1

\* C7: for an unforced, non-ambiguous decision the structured capability is
\* invoked only if confidence >= confidence_threshold, the knowledge capability
\* only if confidence >= max(0.4, 0.6 * confidence_threshold); otherwise neither
\* is invoked and the clarification is returned with agent_used
\* 'Router (Clarification)' and success = true.
C7_GatingByThreshold ==
    (pc = "r_return" /\ Unforced /\ env.classification.query_type \in {"sql", "rag"}) =>
        LET c == env.classification.confidence
            isSql == env.classification.query_type = "sql"
            sqlOk == c * 100 >= confidence_threshold * TotalOne
            ragOk == /\ c * 10 >= 4 * TotalOne
                     /\ c * 1000 >= 6 * confidence_threshold * TotalOne
            passes == IF isSql THEN sqlOk ELSE ragOk
        IN  /\ calls.sql = 1 => (isSql /\ sqlOk)
            /\ calls.rag = 1 => (~isSql /\ ragOk)
            /\ passes => (calls.sql + calls.rag = 1 /\ calls.clarify = 0)
            /\ ~passes =>
                  /\ calls.sql + calls.rag = 0
                  /\ env.response.kind = "clarification"
                  /\ env.agent_used = "Router (Clarification)"
                  /\ env.success

C7_Witness ==
    /\ pc = "r_return"
    /\ Unforced
    /\ env.classification.query_type = "rag"
    /\ env.classification.confidence * 1000 >= 6 * confidence_threshold * TotalOne
    /\ env.agent_used = "Router (Clarification)"
    /\ env.success

\* C8: no exception raised inside route_query reaches its caller: control goes
\* to the handler, the envelope is returned with execution_time set, and if an
\* exception occurred the envelope has success = false, an error text and the
\* fixed apology as response.
C8_NeverEscapes ==
    /\ pc # "escaped"
    /\ calls.raised => pc \in {"r_except", "r_finally", "r_return"}
    /\ pc = "r_return" => env.execution_time_set
    /\ (pc = "r_return" /\ calls.raised) =>
          /\ ~env.success
          /\ env.error # None /\ env.error # ""
          /\ env.response.kind = "apology"

C8_Witness ==
    /\ pc = "r_return"
    /\ calls.raised
    /\ ~env.success
    /\ env.execution_time_set

\* C9: the confidence of every decision lies in [0, 1]: it is 0.5 for an
\* ambiguous one, min(larger total, 0.95) for a non-ambiguous one, whose label
\* is the side with the larger total, and 1.0 only for forced routing.
C9_ConfidenceInRange ==
    (classification.query_type # "None") =>
        LET c == classification.confidence
            t == classification.query_type
            larger == Max(clsTotals.sql, clsTotals.rag)
        IN  /\ c >= 0 /\ c <= TotalOne
            /\ c = TotalOne <=> Truthy(force_route)
            /\ (~Truthy(force_route) /\ t = "ambiguous") => c * 2 = TotalOne
            /\ (~Truthy(force_route) /\ t = "sql") =>
                  /\ clsTotals.sql > clsTotals.rag
                  /\ c = Min(larger, (TotalOne * 95) \div 100)
            /\ (~Truthy(force_route) /\ t = "rag") =>
                  /\ clsTotals.rag > clsTotals.sql
                  /\ c = Min(larger, (TotalOne * 95) \div 100)

C9_Witness ==
    /\ classification.query_type = "rag"
    /\ ~Truthy(force_route)
    /\ clsTotals.rag * 100 > TotalOne * 95
    /\ classification.confidence * 100 = TotalOne * 95

SameTableAgain ==
    /\ prevDDL.table # None
    /\ prevDDL.table = lastDDL.table
    /\ ~prevDDL.whChanged

\* C10 as stated: for any table, the second of two consecutive get_table_ddl
\* calls with no warehouse change between them returns the value the first
\* returned and issues no warehouse query.
C10_DescribeIdempotent ==
    SameTableAgain => (lastDDL.info = prevDDL.info /\ lastDDL.queries = 0)

\* C10 as amended: when the first call left an entry for the table in
\* schema_cache, the second of two consecutive calls with no warehouse change
\* between them returns an equal value and issues no warehouse query; when the
\* first call's columns query failed nothing was cached, and the second call
\* returns an equal value but queries the warehouse again.
C10_DescribeIdempotentOnceCached ==
    SameTableAgain =>
        /\ lastDDL.info = prevDDL.info
        /\ prevDDL.stored => (lastDDL.queries = 0 /\ lastDDL.hit)
        /\ ~prevDDL.stored => (lastDDL.queries > 0 /\ ~lastDDL.hit)

C10_Witness ==
    /\ SameTableAgain
    /\ ~prevDDL.hit
    /\ prevDDL.stored
    /\ prevDDL.queries = 3
    /\ lastDDL.hit
    /\ lastDDL.queries = 0

FreshDescribe ==
    /\ lastDDL.table # None
    /\ ~lastDDL.hit
    /\ ~lastDDL.whChanged

\* C11 as stated: get_table_ddl returns a TableInfo for the table asked, and
\* whenever one of its warehouse queries (columns, sample rows, row count)
\* failed, the TableInfo it returns has empty columns.
C11_AnyFailureEmptiesColumns ==
    FreshDescribe =>
        /\ lastDDL.info.table_name = lastDDL.table
        /\ wh[lastDDL.table] # "up" => lastDDL.info.columns = <<>>

\* C11 as amended: get_table_ddl returns a TableInfo for the table asked; it
\* has empty columns when the columns query failed or returned no rows; when
\* the columns query succeeded and only the sample or the count query failed,
\* the columns are kept and sample_data / row_count are None.
C11_ColumnsFailureEmptiesColumns ==
    FreshDescribe =>
        /\ lastDDL.info.table_name = lastDDL.table
        /\ wh[lastDDL.table] \in {"down", "nocols"} => lastDDL.info.columns = <<>>
        /\ wh[lastDDL.table] = "partial" =>
              /\ lastDDL.info.columns = WhColumns(lastDDL.table)
              /\ lastDDL.info.columns # <<>>
              /\ lastDDL.info.sample_data = None
              /\ lastDDL.info.row_count = NoCount

C11_Witness ==
    /\ FreshDescribe
    /\ wh[lastDDL.table] = "partial"
    /\ lastDDL.queries = 3
    /\ lastDDL.info.columns # <<>>

\* C12: every table name get_available_tables returns is in the current schema,
\* has a non-null non-zero row count and matches the name filter; on a metadata
\* query error or no match the result is the empty list.
C12_DiscoveryFilterIsWhole ==
    lastTables.called =>
        /\ \A i \in 1..Len(lastTables.tables) :
             LET n == lastTables.tables[i]
             IN  /\ catalog[n].current
                 /\ catalog[n].rows # NoCount
                 /\ catalog[n].rows # 0
                 /\ (LikeOneTrust(n) \/ LikeTracking(n))
        /\ ~lastTables.ok => lastTables.tables = <<>>

TextKinds ==
    {"no_tables", "no_relevant", "no_schema", "no_query", "exec_error", "no_data",
     "summary", "persistent", "unexpected"}

\* C13: process_question never raises: an exception inside it goes to its
\* handler, and whatever failed (discovery, relevance selection, schema lookup,
\* generation, validation, execution, correction, summarisation, artifact
\* writing) the call returns one of its text messages.
C13_PipelineAlwaysAnswers ==
    /\ pc # "pq_escaped"
    /\ pc = "pq_return" => response.kind \in TextKinds
    /\ (pc = "pq_return" /\ available_tables = <<>>) => response.kind = "no_tables"
    /\ (pc = "pq_return" /\ available_tables # <<>> /\ relevant_tables = <<>>) =>
          response.kind = "no_relevant"
    /\ (pc = "pq_return" /\ relevant_tables # <<>> /\ table_infos = <<>>) =>
          response.kind = "no_schema"
    /\ (pc = "pq_return" /\ table_infos # <<>> /\ query = "" /\ execCount = 0
        /\ max_retries >= 0) =>
          response.kind = "no_query"
    /\ (pc = "pq_return" /\ execCount > 0 /\ ~result.success) =>
          response.kind \in {"exec_error", "persistent"}
    /\ (pc = "pq_return" /\ execCount > 0 /\ result.success) =>
          response.kind \in {"no_data", "summary", "unexpected"}

C13_Witness ==
    /\ pc = "pq_return"
    /\ response.kind = "unexpected"
    /\ execCount > 0
    /\ result.success

\* C14: _llm_classification makes exactly one completion-service call and
\* returns a verdict whatever the call does: a failed call gives (ambiguous,
\* 0.5, the error text); a reply without a CLASSIFICATION line gives ambiguous;
\* a missing or unparseable CONFIDENCE gives 0.5; a parsed CONFIDENCE is clamped
\* into [0, 1]; the label token is matched whatever its letter case.
C14_LlmVerdictDefaults ==
    (l_reply.stage = "returned") =>
        LET reply == l_reply.reply
            v == l_verdict
        IN  /\ l_calls = 1
            /\ v.label \in {"sql", "rag", "ambiguous"}
            /\ v.confidence >= 0 /\ v.confidence <= One
            /\ ~reply.ok => /\ v.label = "ambiguous"
                            /\ v.confidence * 2 = One
                            /\ v.reasoning = "LLM classification error"
            /\ (reply.ok /\ reply.cls = "absent") => v.label = "ambiguous"
            /\ (reply.ok /\ reply.conf.kind \in {"absent", "text"}) =>
                  v.confidence * 2 = One
            /\ (reply.ok /\ reply.conf.kind = "number") =>
                  v.confidence * 100 =
                      One * (IF reply.conf.value < 0 THEN 0
                             ELSE IF reply.conf.value > 100 THEN 100
                             ELSE reply.conf.value)
            /\ (reply.ok /\ reply.cls \in {"sql", "SQL"}) => v.label = "sql"
            /\ (reply.ok /\ reply.cls = "rag") => v.label = "rag"

C14_Witness ==
    /\ l_reply.stage = "returned"
    /\ l_reply.reply.ok
    /\ l_reply.reply.cls = "sql"
    /\ l_reply.reply.conf.kind = "number"
    /\ l_reply.reply.conf.value > 100
    /\ l_verdict.label = "sql"
    /\ l_verdict.confidence = One

\* C15: scenario A: with the default threshold 0.7 and the table TRACKING known,
\* the question "How many records are in the tracking table?", once classified
\* as a structured query, is dispatched to the structured capability
\* (agent_used 'SQL Database Agent') and not answered by a clarification.
C15_ScenarioA ==
    (/\ pc = "r_return"
     /\ ~Forced
     /\ r_input.question = "QA"
     /\ confidence_threshold = 70
     /\ env.classification.query_type = "sql") =>
        /\ env.agent_used = "SQL Database Agent"
        /\ calls.sql = 1
        /\ calls.clarify = 0

ScenarioB ==
    /\ pc = "r_return"
    /\ ~Forced
    /\ r_input.question = "QB"

\* C16 as stated: scenario B: for "Explain what data retention means" the
\* context scorer finds no relational match, two knowledge patterns ('explain'
\* and 'what is') match, and route_query dispatches the knowledge capability.
C16_ScenarioBAsStated ==
    ScenarioB =>
        /\ Features("QB").tables + Features("QB").columns + Features("QB").terms = 0
        /\ DatabaseContextAnalysis("QB") = 0
        /\ Features("QB").ragPat = 2
        /\ calls.rag = 1

\* C16 as amended: scenario B: the context scorer finds one relational match
\* (the term 'data', context score 0.3), one knowledge pattern ('explain')
\* matches, and route_query dispatches the knowledge capability for every reply
\* of the completion service, at the thresholds 0.7 and 0.36.
C16_ScenarioB ==
    ScenarioB =>
        /\ Features("QB").tables + Features("QB").columns = 0
        /\ Features("QB").terms = 1
        /\ DatabaseContextAnalysis("QB") * 10 = 3 * One
        /\ Features("QB").ragPat = 1
        /\ PatternAnalysis("QB").rag * 8 = One
        /\ env.classification.query_type = "rag"
        /\ calls.rag = 1
        /\ calls.sql = 0
        /\ calls.clarify = 0
        /\ env.agent_used = "RAG Knowledge Agent"
        /\ ~env.disclaimer

C16_Witness ==
    /\ ScenarioB
    /\ confidence_threshold = 70
    /\ clsTotals.sql * 10 > 3 * One
    /\ env.agent_used = "RAG Knowledge Agent"

\* C17: when two requests run concurrently on the same agent, neither observes
\* or consumes the other's warehouse statement: the columns and the rows a
\* request's execute_query call reads are those of its own query.
C17_RequestsDoNotShareTheCursor ==
    \A t \in Requests :
        conn_pc[t] = "done" =>
            /\ conn_got[t].columns = conn_got[t].query
            /\ conn_got[t].rows = conn_got[t].query

\* C18: the decision record returned for an ambiguous classification names a
\* resolved capability: its suggested_route is one of the two backing
\* capabilities and equals the capability actually used (agent_used).
C18_AmbiguousRecordIsResolved ==
    AmbiguousReturn =>
        /\ env.classification.suggested_route \in
               {"SQL Database Agent", "RAG Knowledge Agent"}
        /\ env.classification.suggested_route = env.agent_used

ExpectedFirstQuery ==
    IF valReply.ok /\ valReply.form = "INVALID_CORRECTED"
    THEN valReply.body
    ELSE genQuery.query

\* C19: the validation pass is one completion-service call made after
\* generation and before the first execution, and the query first executed is
\* the CORRECTED text when the reply is 'INVALID: ... CORRECTED: ...', and the
\* generated query unchanged when the reply starts with VALID, is INVALID
\* without a CORRECTED part, has any other form, or the call failed.
C19_FirstQueryFollowsValidation ==
    genQuery.set =>
        /\ llmCalls = genQuery.calls + 1
        /\ execCount <= 1
        /\ (pc = "pq_loop" /\ execCount = 0) => query = ExpectedFirstQuery
        /\ execCount = 1 => lastExec.query = ExpectedFirstQuery

C19_Witness ==
    /\ genQuery.set
    /\ execCount = 1
    /\ valReply.form = "INVALID_CORRECTED"
    /\ genQuery.query = "q1"
    /\ lastExec.query = "q2"

\* C20: determine_relevant_tables returns at most 5 names, each a member of the
\* discovered list it was given, for any reply (invented and repeated names
\* included) and when the call fails; when the reply names no discovered
\* table the result is the substring fallback (cut to 5).  So every table whose
\* schema process_question fetches is in the request's discovered list.
C20_RelevantTablesAreDiscovered ==
    /\ (rel_in.stage = "returned") =>
          LET discovered == Range(rel_in.available)
              named == {rel_in.reply.lines[i] : i \in 1..Len(rel_in.reply.lines)}
              fallback == SelectSeq(rel_in.available,
                                    LAMBDA t : t \in TableWords(rel_in.question))
          IN  /\ Len(rel_out) <= 5
              /\ \A i \in 1..Len(rel_out) : rel_out[i] \in discovered
              /\ (~rel_in.reply.ok \/ named \cap discovered = {}) =>
                    rel_out = IF Len(fallback) <= 5 THEN fallback
                              ELSE SubSeq(fallback, 1, 5)
              /\ (rel_in.reply.ok /\ named \cap discovered # {}) =>
                    \A i \in 1..Len(rel_out) : rel_out[i] \in named
    /\ InPipeline =>
          /\ Len(relevant_tables) <= 5
          /\ \A i \in 1..Len(relevant_tables) :
                relevant_tables[i] \in Range(available_tables)
          /\ \A i \in 1..Len(table_infos) :
                table_infos[i].table_name \in Range(available_tables)

C20_Witness ==
    /\ rel_in.stage = "returned"
    /\ Len(rel_in.available) > 5
    /\ rel_in.reply.ok
    /\ Len(rel_in.reply.lines) > 5
    /\ Len(rel_out) = 5

\* C21: process_question stops with a user message, making no later-stage call,
\* when discovery returns no tables (no completion-service call and no
\* execution so far), when no relevant table is selected, when every relevant
\* table has an empty schema (no generation call), and when generation returns
\* empty SQL (no validation call and no execution).
C21_StopsEarly ==
    [][/\ (pc = "pq_tables" /\ available_tables' = <<>>) =>
            /\ pc' = "pq_return"
            /\ response'.kind = "no_tables"
            /\ llmCalls' = 0 /\ execCount' = 0 /\ corrCount' = 0
            /\ UNCHANGED ddlVars
       /\ (pc = "pq_relevant" /\ relevant_tables' = <<>>) =>
            /\ pc' = "pq_return"
            /\ response'.kind = "no_relevant"
            /\ llmCalls' = 1 /\ execCount' = 0 /\ corrCount' = 0
            /\ UNCHANGED ddlVars
       /\ (pc = "pq_schema" /\ ddl_i' > Len(relevant_tables) /\ table_infos' = <<>>) =>
            /\ pc' = "pq_return"
            /\ response'.kind = "no_schema"
            /\ llmCalls' = 1 /\ execCount' = 0 /\ corrCount' = 0
       /\ (pc = "pq_generate" /\ query' = "") =>
            /\ pc' = "pq_return"
            /\ response'.kind = "no_query"
            /\ llmCalls' = 2 /\ execCount' = 0 /\ corrCount' = 0
            /\ genQuery' = NoGenQuery
       /\ pc = "pq_return" =>
            /\ pc' \in {"idle", "r_after_sql"}
            /\ UNCHANGED ddlVars]_vars

C21_Witness ==
    /\ pc = "pq_return"
    /\ response.kind = "no_query"
    /\ table_infos # <<>>
    /\ llmCalls = 2
    /\ execCount = 0

\* The names of the tables process_question has described so far.
Described == {relevant_tables[j] : j \in 1..(ddl_i - 1)}

\* C22: a relevant table whose schema lookup returns empty columns is left out
\* and the pipeline goes on with the other tables; generation, validation and
\* correction are given tables with non-empty columns only; the schema failure
\* is reported only when every relevant table was left out.
C22_EmptySchemaIsExcluded ==
    (InPipeline /\ pc # "pq_tables") =>
        /\ \A i \in 1..Len(table_infos) :
             /\ table_infos[i].columns # <<>>
             /\ table_infos[i].table_name \in Described
        /\ \A t \in Described :
             wh[t] \in {"up", "partial"} =>
                \E i \in 1..Len(table_infos) : table_infos[i].table_name = t
        /\ pc \in {"pq_generate", "pq_validate", "pq_loop", "pq_correct", "pq_format",
                   "pq_except"} =>
             /\ table_infos # <<>>
             /\ ddl_i = Len(relevant_tables) + 1
        /\ (pc = "pq_return" /\ response.kind = "no_schema") =>
             /\ table_infos = <<>>
             /\ relevant_tables # <<>>
             /\ \A t \in Range(relevant_tables) : wh[t] \in {"nocols", "down"}
        /\ (pc = "pq_return" /\ table_infos = <<>> /\ relevant_tables # <<>>) =>
             response.kind = "no_schema"

C22_Witness ==
    /\ pc = "pq_correct"
    /\ Len(relevant_tables) = 2
    /\ Len(table_infos) = 1
    /\ wh[relevant_tables[1]] = "down"

\* C23: format_response has three outcomes.  For a failed result: the error
\* text and the SQL attempted, no completion-service call, no artifact.  For a
\* successful result without rows: the fixed no-data text, no call, no
\* artifact.  For a successful result with rows: exactly one summarisation
\* call, one artifact write of the result set, the executed SQL, and a download
\* reference exactly when the write succeeded; a failed write or a failed
\* summarisation does not raise.
C23_FormatOutcomes ==
    f_in.stage = "returned" =>
        LET res == f_in.result
            text == f_out.response
        IN  /\ (~f_in.summaryOk \/ f_in.textual) => f_out.returned
            /\ (f_out.returned /\ ~res.success) =>
                 /\ text.kind = "exec_error"
                 /\ text.error = res.error
                 /\ text.sql = f_in.query
                 /\ f_out.llm = 0 /\ f_out.artifacts = 0 /\ ~f_out.written
                 /\ ~text.csv_link
            /\ (f_out.returned /\ res.success /\ res.row_count = 0) =>
                 /\ text.kind = "no_data"
                 /\ f_out.llm = 0 /\ f_out.artifacts = 0 /\ ~f_out.written
                 /\ ~text.csv_link
            /\ (f_out.returned /\ res.success /\ res.row_count > 0) =>
                 /\ text.kind = "summary"
                 /\ text.sql = f_in.query
                 /\ f_out.llm = 1 /\ f_out.artifacts = 1
                 /\ f_out.written = f_in.csvOk
                 /\ text.csv_link = f_out.written

C23_Witness ==
    /\ f_in.stage = "returned"
    /\ f_in.result.success /\ f_in.result.row_count > 0
    /\ ~f_in.csvOk /\ ~f_in.summaryOk
    /\ f_out.returned
    /\ f_out.response.kind = "summary"
    /\ ~f_out.response.csv_link

\* C24: classify_query computes structured_total = 0.25 * (kw_structured + ctx
\* + pat_structured + v_s) and knowledge_total = 0.25 * (kw_knowledge + (1 - ctx)
\* + pat_knowledge + v_k), v_s being the verdict's confidence when the verdict
\* is structured and 0 otherwise, v_k likewise for knowledge, so an ambiguous
\* verdict adds to neither; the label is ambiguous iff the totals differ by
\* less than 0.1, and otherwise the side with the larger total.
C24_WeightedTotals ==
    (calls.classifier = 1 /\ pc \in {"r_dispatch", "r_finally", "r_return"}) =>
        LET q == r_query.question
            v == calls.verdict
            ctx == DatabaseContextAnalysis(q)
            v_s == IF v.label = "sql" THEN v.confidence ELSE 0
            v_k == IF v.label = "rag" THEN v.confidence ELSE 0
            structured == KeywordAnalysis(q).sql + ctx + PatternAnalysis(q).sql + v_s
            knowledge == KeywordAnalysis(q).rag + (One - ctx) + PatternAnalysis(q).rag
                         + v_k
            type == classification.query_type
        IN  /\ clsTotals.sql = structured
            /\ clsTotals.rag = knowledge
            /\ v.label = "ambiguous" => (v_s = 0 /\ v_k = 0)
            /\ type = "ambiguous" <=> 10 * Abs(structured - knowledge) < TotalOne
            /\ type = "sql" <=>
                 (10 * Abs(structured - knowledge) >= TotalOne /\ structured > knowledge)
            /\ type = "rag" <=>
                 (10 * Abs(structured - knowledge) >= TotalOne /\ knowledge > structured)

C24_Witness ==
    /\ pc = "r_dispatch"
    /\ calls.classifier = 1
    /\ calls.verdict.label = "rag"
    /\ calls.verdict.confidence > 0
    /\ classification.query_type = "ambiguous"

\* A get_table_ddl call has just been made for table t.
JustDescribed(t) ==
    /\ wh' = wh
    /\ <<lastDDL, prevDDL>>' # <<lastDDL, prevDDL>>
    /\ lastDDL'.table = t

\* An entry of schema_cache stays as it is.
EntryKept(t) ==
    /\ t \in DOMAIN schema_cache'
    /\ schema_cache'[t] = schema_cache[t]

\* C25 as stated: once schema_cache holds an entry for a table, no operation
\* on the agent (describe, process_question, route_query) changes, replaces or
\* removes it, and each table's metadata is fetched from the warehouse at most
\* once per instance.
C25_CachedOnceFetchedOnce ==
    [][/\ \A t \in DOMAIN schema_cache : EntryKept(t)
       /\ \A t \in Tables :
            (JustDescribed(t) /\ lastDDL.table = t /\ lastDDL.queries > 0) =>
                lastDDL'.queries = 0]_vars

\* C25: once schema_cache holds an entry for a table, no operation on the
\* agent changes, replaces or removes it, and no metadata query is issued for
\* that table again; a table that is not cached is fetched on every call.
C25_CachedEntryIsKept ==
    [][/\ \A t \in DOMAIN schema_cache :
            /\ EntryKept(t)
            /\ JustDescribed(t) => (lastDDL'.hit /\ lastDDL'.queries = 0)
       /\ \A t \in Tables \ DOMAIN schema_cache :
            JustDescribed(t) => (~lastDDL'.hit /\ lastDDL'.queries > 0)]_vars

C25_Witness ==
    /\ pc = "pq_return"
    /\ caller = "router"
    /\ lastDDL.hit
    /\ lastDDL.table = "TRACKING"
    /\ lastDDL.info.columns # <<>>
    /\ wh["TRACKING"] = "down"

\* C26: when two requests call get_table_ddl at the same time for the same
\* table, not yet cached, on one agent, the warehouse metadata queries for that
\* table are issued by only one of them and both observe the same cached
\* TableInfo.
C26_OneRequestFetches ==
    \A a \in Requests, b \in Requests :
        (/\ a # b
         /\ g_pc[a] = "done" /\ g_pc[b] = "done"
         /\ g_got[a].table = g_got[b].table
         /\ wh[g_got[a].table] # "down") =>
            /\ ~(g_got[a].queries > 0 /\ g_got[b].queries > 0)
            /\ g_got[a].info = g_got[b].info
            /\ g_got[a].info = schema_cache[g_got[a].table]

\* A QueryResult as execute_query documents it.
WellFormed(res) ==
    /\ res.success =>
         /\ res.error = None
         /\ res.data # NoCount
         /\ res.row_count = res.data
         /\ res.row_count >= 0
    /\ ~res.success =>
         /\ res.error \in Errors
         /\ res.data = NoCount

\* C27: execute_query never raises and every QueryResult it returns is well
\* formed: success implies no error, data present and row_count equal to the
\* number of rows in data (0 with an empty table when the statement returns no
\* rows); failure implies an error text and no data; in both cases query is
\* the SQL text that was submitted.
C27_QueryResultWellFormed ==
    [][(pc = "pq_loop" /\ retry_count <= max_retries) =>
          /\ pc' \in {"pq_format", "pq_correct"}
          /\ execCount' = execCount + 1
          /\ WellFormed(result')
          /\ result'.query = query
          /\ query' = query]_vars

C27_Witness ==
    /\ pc = "pq_format"
    /\ result.success
    /\ result.row_count = 0
    /\ result.data = 0
    /\ result.query = "q2"
    /\ execCount = 2

\* C28: a route_query call invokes at most one backing capability, at most
\* once; with success = true, agent_used is 'SQL Database Agent', 'RAG
\* Knowledge Agent' or 'Router (Clarification)' and names the capability that
\* was invoked (none for the clarification); with success = false no
\* capability response is returned and agent_used is unset.
C28_OneCapabilityNamed ==
    /\ calls.sql + calls.rag <= 1
    /\ pc = "r_return" =>
         /\ env.success =>
              /\ env.agent_used \in {"SQL Database Agent", "RAG Knowledge Agent",
                                      "Router (Clarification)"}
              /\ env.agent_used = "SQL Database Agent" <=> calls.sql = 1
              /\ env.agent_used = "RAG Knowledge Agent" <=> calls.rag = 1
              /\ env.agent_used = "Router (Clarification)" <=>
                   (calls.clarify = 1 /\ calls.sql + calls.rag = 0)
              /\ calls.clarify <= 1
         /\ ~env.success =>
              /\ env.agent_used = None
              /\ env.response.kind = "apology"
              /\ calls.sql + calls.rag + calls.clarify = 0

C28_Witness ==
    /\ pc = "r_return"
    /\ env.success
    /\ classification.query_type = "ambiguous"
    /\ env.agent_used = "RAG Knowledge Agent"
    /\ calls.rag = 1
    /\ calls.sql = 0

\* C29: the SQL text process_question submits to the warehouse for the user's
\* question is never empty: an empty query produced by generation, by the
\* CORRECTED part of the validation reply or by the correction step is never
\* executed.
C29_NoEmptyQueryExecuted ==
    (InPipeline /\ execCount > 0) => lastExec.query # ""

\* C30: the router's success flag reflects routing only: whenever route_query
\* dispatches a capability and it returns, the envelope has success = true and
\* no error, also when the SQL pipeline's text reports a failed execution and
\* when the knowledge agent's text reports its own error.
C30_SuccessMeansRouted ==
    (pc \in {"r_finally", "r_return"} /\ calls.sql + calls.rag >= 1) =>
        /\ env.success
        /\ env.error = None
        /\ env.response = response
        /\ env.response.kind # "apology"

C30_Witness ==
    /\ pc = "r_return"
    /\ calls.sql = 1
    /\ env.response.kind = "exec_error"
    /\ env.response.error \in Errors
    /\ env.success
    /\ env.error = None

====
